---- MODULE Spec2Model ----
(***************************************************************************)
(* Request authorization pipeline of the multi-tenant ERP backend:        *)
(* tenant resolution (resolver service, pre-auth middleware, post-auth     *)
(* interceptor) and the guard chain (TenantGuard, ModuleGuard, RoleGuard). *)
(*                                                                         *)
(* Conventions.  An optional value is a sequence of length 0 (undefined)   *)
(* or 1.  An absent or empty string is "".  Time is counted in minutes.    *)
(***************************************************************************)
EXTENDS Integers, Sequences, FiniteSets, TLC

None == <<>>
Some(x) == <<x>>
Val(o) == o[1]
IsSome(o) == o # <<>>

\* ------------------------------------------------------------------------
\* Bounds
\* ------------------------------------------------------------------------
StartTime == 1
MaxTime == 6

\* ------------------------------------------------------------------------
\* The company directory (external data store)
\* ------------------------------------------------------------------------
CompanyIds == {"cA", "cB"}

CompanySubdomain(id) == IF id = "cA" THEN "abc" ELSE "xyz"

CompanyName(id) == IF id = "cA" THEN "ABC Corporation" ELSE "XYZ Ltd"

ModuleName == {"HRM", "PAYROLL"}

\* 5 * 60 * 1000 ms, in minutes
CACHE_TTL == 5

VARIABLES
  now,              \* Date.now()
  storeActive,      \* ids of the Company rows with isActive = true
  storeUp,          \* FALSE while the data store rejects queries
  storeModules,     \* CompanyModule rows with enabled = true, per company
  tenantCache,      \* TenantResolverService.tenantCache
  cacheTimestamps,  \* TenantResolverService.cacheTimestamps
  moduleCache,      \* ModuleGuard.moduleCache
  req,              \* the in-flight request
  pc,               \* the stage the in-flight request has reached
  route,            \* the capability-requirement metadata of the route
  outcome,          \* what the guard that ran last decided
  RATE_LIMIT_CONFIG,  \* the rate-limit configuration read at load time
  rateLimitStore,   \* CustomThrottlerGuard.rateLimitStore
  blockedIPs,       \* CustomThrottlerGuard.blockedIPs
  response,         \* what the rate limiter did with the last request
  call,             \* the last call made on the tenant resolver
  pending,          \* the asynchronous operations awaiting their completion
  history           \* when earlier events happened (for the properties only)

vars == <<now, storeActive, storeUp, storeModules, tenantCache,
          cacheTimestamps, moduleCache, req, pc, route, outcome,
          RATE_LIMIT_CONFIG, rateLimitStore, blockedIPs, response, call,
          pending, history>>

throttlerVars == <<RATE_LIMIT_CONFIG, rateLimitStore, blockedIPs, response>>

\* ------------------------------------------------------------------------
\* Strings the model needs
\* ------------------------------------------------------------------------
ToLower(s) ==
  CASE s = "ABC" -> "abc"
    [] s = "XYZ" -> "xyz"
    [] s = "WWW" -> "www"
    [] OTHER -> s

CacheKeys == {"abc", "xyz", "ABC", "nope", "www"}

TenantInfo(id, active) ==
  [id |-> id, name |-> CompanyName(id), subdomain |-> CompanySubdomain(id),
   isActive |-> active]

TenantResolutionSource == {"jwt", "subdomain", "header", "fallback"}

FindCompanyBySubdomain_AnyStatus(sub) ==
  LET hit == {c \in CompanyIds : CompanySubdomain(c) = sub}
  IN  IF hit = {} THEN None ELSE Some(CHOOSE c \in hit : TRUE)

\* prisma.company.findUnique({where: {subdomain, isActive: true}})
FindCompanyBySubdomain(sub) ==
  LET hit == {c \in CompanyIds : CompanySubdomain(c) = sub /\ c \in storeActive}
  IN  IF hit = {} THEN None ELSE Some(CHOOSE c \in hit : TRUE)

FindCompanyById_AnyStatus(id) ==
  IF id \in CompanyIds THEN Some(id) ELSE None

\* prisma.company.findUnique({where: {id, isActive: true}})
FindCompanyById(id) ==
  IF id \in CompanyIds /\ id \in storeActive THEN Some(id) ELSE None

\* ------------------------------------------------------------------------
\* TenantResolverService
\* ------------------------------------------------------------------------
Failure(source, error) ==
  [success |-> FALSE, tenantId |-> "", tenantInfo |-> None,
   source |-> source, error |-> error]

Success(info, source) ==
  [success |-> TRUE, tenantId |-> info.id, tenantInfo |-> Some(info),
   source |-> source, error |-> ""]

\* A resolver call returns its result and the cache it leaves behind.
Ret(result, cache, stamps) ==
  [result |-> result, cache |-> cache, stamps |-> stamps]

CacheHit(cache, stamps, key) ==
  /\ IsSome(cache[key])
  /\ IsSome(stamps[key])
  /\ Val(stamps[key]) # 0
  /\ now - Val(stamps[key]) < CACHE_TTL

getCachedTenant_Inclusive(cache, stamps, key) ==
  IF /\ IsSome(cache[key])
     /\ IsSome(stamps[key])
     /\ Val(stamps[key]) # 0
     /\ now - Val(stamps[key]) <= CACHE_TTL
  THEN [hit |-> cache[key], cache |-> cache, stamps |-> stamps]
  ELSE [hit |-> None,
        cache |-> [cache EXCEPT ![key] = None],
        stamps |-> [stamps EXCEPT ![key] = None]]

getCachedTenant(cache, stamps, key) ==
  IF CacheHit(cache, stamps, key)
  THEN [hit |-> cache[key], cache |-> cache, stamps |-> stamps]
  ELSE [hit |-> None,
        cache |-> [cache EXCEPT ![key] = None],
        stamps |-> [stamps EXCEPT ![key] = None]]

setCachedTenant(cache, stamps, key, info) ==
  [cache |-> [cache EXCEPT ![key] = Some(info)],
   stamps |-> [stamps EXCEPT ![key] = Some(now)]]

resolveFromSubdomain_DropsCache(cache, stamps, subdomain) ==
  IF subdomain = ""
  THEN Ret(Failure("subdomain", "No subdomain provided"), cache, stamps)
  ELSE
    LET got == getCachedTenant(cache, stamps, subdomain) IN
    IF IsSome(got.hit)
    THEN Ret(Success(Val(got.hit), "subdomain"), got.cache, got.stamps)
    ELSE IF ~storeUp
    THEN Ret(Failure("subdomain", "Database error"),
             [k \in CacheKeys |-> None], [k \in CacheKeys |-> None])
    ELSE
      LET company == FindCompanyBySubdomain(ToLower(subdomain)) IN
      IF ~IsSome(company)
      THEN Ret(Failure("subdomain", "No active company found for subdomain"),
               got.cache, got.stamps)
      ELSE
        LET info == TenantInfo(Val(company), TRUE)
            put == setCachedTenant(got.cache, got.stamps, subdomain, info)
        IN  Ret(Success(info, "subdomain"), put.cache, put.stamps)

resolveFromSubdomain(cache, stamps, subdomain) ==
  IF subdomain = ""
  THEN Ret(Failure("subdomain", "No subdomain provided"), cache, stamps)
  ELSE
    LET got == getCachedTenant(cache, stamps, subdomain) IN
    IF IsSome(got.hit)
    THEN Ret(Success(Val(got.hit), "subdomain"), got.cache, got.stamps)
    ELSE IF ~storeUp
    THEN Ret(Failure("subdomain", "Database error"), got.cache, got.stamps)
    ELSE
      LET company == FindCompanyBySubdomain(ToLower(subdomain)) IN
      IF ~IsSome(company)
      THEN Ret(Failure("subdomain", "No active company found for subdomain"),
               got.cache, got.stamps)
      ELSE
        LET info == TenantInfo(Val(company), TRUE)
            put == setCachedTenant(got.cache, got.stamps, subdomain, info)
        IN  Ret(Success(info, "subdomain"), put.cache, put.stamps)

resolveFromJWT_KeyedById(cache, stamps, companyId) ==
  IF companyId = ""
  THEN Ret(Failure("jwt", "No company ID in JWT payload"), cache, stamps)
  ELSE IF ~storeUp
  THEN Ret(Failure("jwt", "Database error"), cache, stamps)
  ELSE
    LET company == FindCompanyById(companyId) IN
    IF ~IsSome(company)
    THEN Ret(Failure("jwt", "Invalid or inactive company ID"), cache, stamps)
    ELSE
      LET info == TenantInfo(Val(company), TRUE)
          put == setCachedTenant(cache, stamps, info.id, info)
      IN  Ret(Success(info, "jwt"), put.cache, put.stamps)

resolveFromJWT(cache, stamps, companyId) ==
  IF companyId = ""
  THEN Ret(Failure("jwt", "No company ID in JWT payload"), cache, stamps)
  ELSE IF ~storeUp
  THEN Ret(Failure("jwt", "Database error"), cache, stamps)
  ELSE
    LET company == FindCompanyById(companyId) IN
    IF ~IsSome(company)
    THEN Ret(Failure("jwt", "Invalid or inactive company ID"), cache, stamps)
    ELSE
      LET info == TenantInfo(Val(company), TRUE)
          put == setCachedTenant(cache, stamps, info.subdomain, info)
      IN  Ret(Success(info, "jwt"), put.cache, put.stamps)

resolveFromHeader(cache, stamps, companyId) ==
  IF companyId = ""
  THEN Ret(Failure("header", "No company ID in header"), cache, stamps)
  ELSE
    LET r == resolveFromJWT(cache, stamps, companyId) IN
    Ret([r.result EXCEPT !.source = "header"], r.cache, r.stamps)

\* ------------------------------------------------------------------------
\* The request and the verified claims record
\* ------------------------------------------------------------------------
Hostnames ==
  { <<"abc", "myerp", "com">>, <<"xyz", "myerp", "com">>,
    <<"www", "myerp", "com">>, <<"localhost:3000">> }

\* JwtPayload: companyId "" is a missing company id, permissions None a
\* payload without the permissions field.
JwtPayload(companyId, roleIds, permissions, isSuperadmin) ==
  [companyId |-> companyId, roleIds |-> roleIds,
   permissions |-> permissions, isSuperadmin |-> isSuperadmin]

TenantContext(tenantId, tenantInfo) ==
  [tenantId |-> tenantId, tenantInfo |-> tenantInfo]

\* The identities the resolution stages are exercised with.
PipelineUsers ==
  { JwtPayload(c, {}, Some({}), FALSE) : c \in CompanyIds \cup {""} }

NewRequests ==
  [hostname : Hostnames,
   headerCompanyId : CompanyIds \cup {""},
   token : {None} \cup {Some(u) : u \in PipelineUsers},
   user : {None},
   tenantContext : {None},
   tenantResolution : {None}]

NoRoute ==
  [jwtGuard |-> FALSE, tenant |-> None, module |-> None,
   permissions |-> None, roles |-> None]

\* What a guard decided: the exception it threw (status, reason, the names
\* its message lists), the list of required strings it checked, and where
\* it got the enabled-module set from.
Decision(guard, pass, status, reason, named, required, lookup) ==
  [guard |-> guard, pass |-> pass, status |-> status, reason |-> reason,
   named |-> named, required |-> required, lookup |-> lookup]

NoOutcome == Decision("", FALSE, 0, "", {}, None, "")

\* ------------------------------------------------------------------------
\* TenantContextMiddleware
\* ------------------------------------------------------------------------
ContainsLocalhost(label) == label \in {"localhost", "localhost:3000"}

DigitLabels == {"10", "0", "1"}

\* hostname.match(/^\d+\.\d+\.\d+\.\d+/)
IsIPv4(hostname) ==
  /\ Len(hostname) >= 4
  /\ \A i \in 1..4 : hostname[i] \in DigitLabels

ReservedSubdomains == {"www", "api", "admin"}

extractSubdomain(hostname) ==
  IF hostname = <<>> THEN ""
  ELSE IF (\E i \in 1..Len(hostname) : ContainsLocalhost(hostname[i]))
          \/ IsIPv4(hostname)
  THEN ""
  ELSE IF Len(hostname) >= 3
          /\ hostname[1] # ""
          /\ hostname[1] \notin ReservedSubdomains
  THEN ToLower(hostname[1])
  ELSE ""

extractTenantSources(r) ==
  [subdomain |-> extractSubdomain(r.hostname),
   userCompanyId |-> IF IsSome(r.user) THEN Val(r.user).companyId ELSE "",
   headerCompanyId |-> r.headerCompanyId]

resolveTenantHeader_LastFailure(cache, stamps, sources) ==
  LET h == resolveFromHeader(cache, stamps, sources.headerCompanyId) IN
  IF sources.headerCompanyId # "" THEN h
  ELSE Ret(Failure("fallback", "No valid tenant source found"), cache, stamps)

\* Priority 3 and the final fallback of resolveTenant
resolveTenantHeader(cache, stamps, sources) ==
  LET h == resolveFromHeader(cache, stamps, sources.headerCompanyId) IN
  IF sources.headerCompanyId # "" /\ h.result.success THEN h
  ELSE IF sources.headerCompanyId # ""
  THEN Ret(Failure("fallback", "No valid tenant source found"),
           h.cache, h.stamps)
  ELSE Ret(Failure("fallback", "No valid tenant source found"), cache, stamps)

\* Priority 2 of resolveTenant and what follows it
resolveTenantSubdomain(cache, stamps, sources) ==
  LET s == resolveFromSubdomain(cache, stamps, sources.subdomain) IN
  IF sources.subdomain # "" /\ s.result.success THEN s
  ELSE IF sources.subdomain # ""
  THEN resolveTenantHeader(s.cache, s.stamps, sources)
  ELSE resolveTenantHeader(cache, stamps, sources)

resolveTenant(cache, stamps, sources) ==
  LET j == resolveFromJWT(cache, stamps, sources.userCompanyId) IN
  IF sources.userCompanyId # "" /\ j.result.success THEN j
  ELSE IF sources.userCompanyId # ""
  THEN resolveTenantSubdomain(j.cache, j.stamps, sources)
  ELSE resolveTenantSubdomain(cache, stamps, sources)

\* What TenantContextMiddleware.use does to the request and the cache, run
\* at stage from and handing over to stage to.
useEffect(from, to) ==
  /\ pc = from
  /\ LET r == resolveTenant(tenantCache, cacheTimestamps,
                            extractTenantSources(req))
     IN  /\ req' = [req EXCEPT
                      !.tenantResolution = Some(r.result),
                      !.tenantContext =
                         IF r.result.success
                         THEN Some(TenantContext(r.result.tenantId,
                                                 r.result.tenantInfo))
                         ELSE @]
         /\ tenantCache' = r.cache
         /\ cacheTimestamps' = r.stamps
  /\ pc' = to
  /\ UNCHANGED <<throttlerVars, pending, history>>
  /\ UNCHANGED <<now, storeActive, storeUp, storeModules, moduleCache,
                 route, outcome>>

use(from, to) == useEffect(from, to) /\ UNCHANGED call

\* TenantContextMiddleware.use: runs for every request, before the guards.
TenantContextMiddleware_use == use("middleware", "guard")

\* JwtGuard (passport): the verified payload becomes request.user; a route
\* that applies the guard answers 401 without a valid credential.
JwtGuard_canActivate(from, to) ==
  /\ pc = from
  /\ IF IsSome(req.token)
     THEN req' = [req EXCEPT !.user = req.token] /\ pc' = to
     ELSE /\ req' = req
          /\ pc' = IF route.jwtGuard THEN "rejected" ELSE to
  /\ UNCHANGED <<throttlerVars, call, pending, history>>
  /\ UNCHANGED <<now, storeActive, storeUp, storeModules, tenantCache,
                 cacheTimestamps, moduleCache, route, outcome>>

JwtGuard == JwtGuard_canActivate("guard", "interceptor")

enhance_ClearsOnFailure(cache, stamps, r) ==
  IF IsSome(r.user) /\ Val(r.user).companyId # ""
     /\ (~IsSome(r.tenantContext)
         \/ ~IsSome(Val(r.tenantContext).tenantInfo))
  THEN
    LET j == resolveFromJWT(cache, stamps, Val(r.user).companyId) IN
    [req |-> IF j.result.success
             THEN [r EXCEPT !.tenantContext =
                     Some(TenantContext(j.result.tenantId,
                                        j.result.tenantInfo))]
             ELSE [r EXCEPT !.tenantContext = None],
     cache |-> j.cache, stamps |-> j.stamps]
  ELSE [req |-> r, cache |-> cache, stamps |-> stamps]

\* TenantContextInterceptor.intercept
enhance(cache, stamps, r) ==
  IF IsSome(r.user) /\ Val(r.user).companyId # ""
     /\ (~IsSome(r.tenantContext)
         \/ ~IsSome(Val(r.tenantContext).tenantInfo))
  THEN
    LET j == resolveFromJWT(cache, stamps, Val(r.user).companyId) IN
    [req |-> IF j.result.success
             THEN [r EXCEPT !.tenantContext =
                     Some(TenantContext(j.result.tenantId,
                                        j.result.tenantInfo))]
             ELSE r,
     cache |-> j.cache, stamps |-> j.stamps]
  ELSE [req |-> r, cache |-> cache, stamps |-> stamps]

intercept(from, to) ==
  /\ pc = from
  /\ LET e == enhance(tenantCache, cacheTimestamps, req)
     IN  /\ req' = e.req
         /\ tenantCache' = e.cache
         /\ cacheTimestamps' = e.stamps
  /\ pc' = to
  /\ UNCHANGED <<throttlerVars, call, pending, history>>
  /\ UNCHANGED <<now, storeActive, storeUp, storeModules, moduleCache,
                 route, outcome>>

TenantContextInterceptor_intercept == intercept("interceptor", "handler")

\* The transport hands the next request to the pipeline.
NewRequest ==
  /\ pc \in {"handler", "rejected"}
  /\ req' \in NewRequests
  /\ route' \in {[NoRoute EXCEPT !.jwtGuard = b] : b \in BOOLEAN}
  /\ pc' = "middleware"
  /\ UNCHANGED <<throttlerVars, call, pending, history>>
  /\ UNCHANGED <<now, storeActive, storeUp, storeModules, tenantCache,
                 cacheTimestamps, moduleCache, outcome>>

\* ------------------------------------------------------------------------
\* Rate-limit configuration (read from the environment once, at load)
\* ------------------------------------------------------------------------
\* RATE_LIMIT_DEFAULT (requests per window) and RATE_LIMIT_BLOCK_DURATION
\* (minutes) as the deployment sets them.
RATE_LIMIT_DEFAULT == 2
RATE_LIMIT_BLOCK_DURATION == 3

\* No rate window is counted beyond this many requests.
MaxCount == 6

\* The values RATE_LIMIT_ENABLE_BLOCKING is set to ("" is unset).
EnableBlockingEnv == {"", "false"}

\* Windows are one minute (60000 ms) unless the environment says otherwise.
getRateLimitConfig(enableBlockingEnv) ==
  [defaultTtl |-> 1, defaultLimit |-> RATE_LIMIT_DEFAULT,
   authTtl |-> 1, authLimit |-> 5, authRefreshLimit |-> 10,
   authLogoutLimit |-> 20,
   blockDuration |-> RATE_LIMIT_BLOCK_DURATION,
   enableBlocking |-> (enableBlockingEnv # "false"),
   logViolations |-> TRUE]

\* The requests the rate limiter is exercised with.
ThrottlerRequests ==
  { [ip |-> "10.0.0.1", remoteAddress |-> "10.0.0.1", method |-> "POST",
     routePath |-> "/auth/login", url |-> "/auth/login"],
    [ip |-> "10.0.0.1", remoteAddress |-> "10.0.0.1", method |-> "GET",
     routePath |-> "/users", url |-> "/users"],
    [ip |-> "", remoteAddress |-> "10.0.0.1", method |-> "GET",
     routePath |-> "", url |-> "/auth/me"] }

getClientIP(request) ==
  IF request.ip # "" THEN request.ip
  ELSE IF request.remoteAddress # "" THEN request.remoteAddress
  ELSE "unknown"

generateKey(request, ip) ==
  <<request.method,
    IF request.routePath # "" THEN request.routePath ELSE request.url,
    ip>>

ClientIPs == {getClientIP(r) : r \in ThrottlerRequests}

RateLimitKeys == {generateKey(r, getClientIP(r)) : r \in ThrottlerRequests}

RateLimitData(count, windowStart, lastReset) ==
  [count |-> count, windowStart |-> windowStart, lastReset |-> lastReset]

\* What the guard did with a request: whether it let it through, the status
\* and retryAfter of the exception it threw, the X-RateLimit-* headers it
\* set on the response, the security event it logged, and whether it removed
\* an expired block entry.
Response(request, pass, status, headers, retryAfter, event, evicted) ==
  [request |-> request, pass |-> pass, status |-> status,
   headers |-> headers, retryAfter |-> retryAfter, event |-> event,
   evicted |-> evicted]

NoResponse == Response(None, FALSE, 0, None, None, "", FALSE)

InitThrottlerIdle ==
  /\ RATE_LIMIT_CONFIG = getRateLimitConfig("")
  /\ rateLimitStore = [k \in RateLimitKeys |-> None]
  /\ blockedIPs = [ip \in ClientIPs |-> None]
  /\ response = NoResponse

\* A call on the tenant resolver: the operation, its argument, what it
\* returned, whether the cache answered it, whether it removed an entry
\* from the cache, and whether it came right after a successful
\* resolveFromJWT of the company that has the argument as its subdomain.
ResolverCall(op, arg, result, cacheHit, evicted, afterJWT) ==
  [op |-> op, arg |-> arg, result |-> result, cacheHit |-> cacheHit,
   evicted |-> evicted, afterJWT |-> afterJWT]

NoCall == ResolverCall("", "", Failure("", ""), FALSE, FALSE, FALSE)

\* Nothing has happened yet: no company was deactivated, no module was
\* disabled, no module set was fetched, no request was accepted and no
\* block was written.
NoHistory ==
  [deactivatedAt |-> [c \in CompanyIds |-> None],
   disabledAt |-> [m \in ModuleName |-> None],
   fetchedAt |-> [c \in CompanyIds |-> None],
   accepted |-> [k \in RateLimitKeys |-> 0],
   blockedUntil |-> [ip \in ClientIPs |-> None],
   blockDuration |-> [ip \in ClientIPs |-> None]]

\* ------------------------------------------------------------------------
\* The environment: the clock and the data store
\* ------------------------------------------------------------------------
Tick ==
  /\ now < MaxTime
  /\ now' = now + 1
  /\ UNCHANGED <<throttlerVars, call, pending, history>>
  /\ UNCHANGED <<storeActive, storeUp, storeModules, tenantCache,
                 cacheTimestamps, moduleCache, req, pc, route, outcome>>

\* An administrator activates or deactivates a company.
SetCompanyActive ==
  /\ \E c \in CompanyIds :
       storeActive' = IF c \in storeActive THEN storeActive \ {c}
                      ELSE storeActive \cup {c}
  /\ UNCHANGED <<throttlerVars, call, pending, history>>
  /\ UNCHANGED <<now, storeUp, storeModules, tenantCache, cacheTimestamps,
                 moduleCache, req, pc, route, outcome>>

Init ==
  /\ now = StartTime
  /\ storeActive = CompanyIds
  /\ storeUp = TRUE
  /\ storeModules = [c \in CompanyIds |-> {}]
  /\ tenantCache = [k \in CacheKeys |-> None]
  /\ cacheTimestamps = [k \in CacheKeys |-> None]
  /\ moduleCache = [c \in CompanyIds |-> None]
  /\ req \in NewRequests
  /\ route \in {[NoRoute EXCEPT !.jwtGuard = b] : b \in BOOLEAN}
  /\ pc = "middleware"
  /\ outcome = NoOutcome
  /\ InitThrottlerIdle
  /\ call = NoCall
  /\ pending = {}
  /\ history = NoHistory

Next ==
  \/ TenantContextMiddleware_use
  \/ JwtGuard
  \/ TenantContextInterceptor_intercept
  \/ NewRequest
  \/ Tick
  \/ SetCompanyActive

Spec == Init /\ [][Next]_vars

\* ------------------------------------------------------------------------
\* TenantGuard
\* ------------------------------------------------------------------------
TenantRequirementMode ==
  {"basic", "strict", "allow-superadmin", "block-superadmin"}

\* Mutant: the superadmin bypass is left on in every mode.
RequireTenant_AlwaysAllow(mode) ==
  [mode |-> mode, allowSuperadmin |-> TRUE]

RequireTenant(mode) ==
  [mode |-> mode, allowSuperadmin |-> mode # "block-superadmin"]

Pass(guard) == Decision(guard, TRUE, 200, "", {}, None, "")

Forbidden(guard, reason) == Decision(guard, FALSE, 403, reason, {}, None, "")

TenantGuard_isSuperadmin(user) == "superadmin" \in user.roleIds

\* Mutant: the tenant context is not compared with the user's company.
validateBasicAccess_NoMatch(user, tenantContext) ==
  IF user.companyId = ""
  THEN Forbidden("TenantGuard", "User must belong to a company")
  ELSE Pass("TenantGuard")

validateBasicAccess(user, tenantContext) ==
  IF user.companyId = ""
  THEN Forbidden("TenantGuard", "User must belong to a company")
  ELSE IF IsSome(tenantContext)
          /\ Val(tenantContext).tenantId # user.companyId
  THEN Forbidden("TenantGuard", "Tenant context does not match user company")
  ELSE Pass("TenantGuard")

\* Mutant: a context without tenantInfo is accepted on its tenantId alone.
validateStrictAccess_NoInfo(user, tenantContext) ==
  IF ~IsSome(tenantContext)
  THEN Forbidden("TenantGuard", "Tenant context not found")
  ELSE IF Val(tenantContext).tenantId # user.companyId
  THEN Forbidden("TenantGuard", "Access denied: tenant context mismatch")
  ELSE IF IsSome(Val(tenantContext).tenantInfo)
          /\ ~Val(Val(tenantContext).tenantInfo).isActive
  THEN Forbidden("TenantGuard", "Access denied: company is not active")
  ELSE Pass("TenantGuard")

validateStrictAccess(user, tenantContext) ==
  IF ~IsSome(tenantContext)
  THEN Forbidden("TenantGuard", "Tenant context not found")
  ELSE IF ~IsSome(Val(tenantContext).tenantInfo)
  THEN Forbidden("TenantGuard", "Complete tenant information not available")
  ELSE IF Val(tenantContext).tenantId # user.companyId
  THEN Forbidden("TenantGuard", "Access denied: tenant context mismatch")
  ELSE IF ~Val(Val(tenantContext).tenantInfo).isActive
  THEN Forbidden("TenantGuard", "Access denied: company is not active")
  ELSE Pass("TenantGuard")

validateTenantAccess(requirement, user, tenantContext) ==
  CASE requirement.mode = "basic" ->
         validateBasicAccess(user, tenantContext)
    [] requirement.mode = "strict" ->
         validateStrictAccess(user, tenantContext)
    [] requirement.mode = "allow-superadmin" ->
         validateBasicAccess(user, tenantContext)
    [] requirement.mode = "block-superadmin" ->
         validateStrictAccess(user, tenantContext)
    [] OTHER ->
         Decision("TenantGuard", FALSE, 400,
                  "Invalid tenant requirement mode", {}, None, "")

TenantGuard_decide(requirement, user, tenantContext) ==
  IF ~IsSome(requirement) THEN Pass("TenantGuard")
  ELSE IF ~IsSome(user)
  THEN Forbidden("TenantGuard", "Authentication required for tenant access")
  ELSE IF Val(requirement).allowSuperadmin /\ TenantGuard_isSuperadmin(Val(user))
  THEN Pass("TenantGuard")
  ELSE IF Val(user).companyId = ""
  THEN Forbidden("TenantGuard",
                 "User must belong to a company to access tenant resources")
  ELSE validateTenantAccess(Val(requirement), Val(user), tenantContext)

TenantGuard_canActivate ==
  /\ pc = "guards"
  /\ outcome' = TenantGuard_decide(route.tenant, req.user, req.tenantContext)
  /\ UNCHANGED <<throttlerVars, call, pending, history>>
  /\ UNCHANGED <<now, storeActive, storeUp, storeModules, tenantCache,
                 cacheTimestamps, moduleCache, req, pc, route>>

\* The claims records and tenant contexts TenantGuard is exercised with.
TenantGuardUsers ==
  {None} \cup
  { Some(JwtPayload(c, r, Some({}), s)) :
      c \in CompanyIds \cup {""}, r \in {{}, {"superadmin"}, {"hr-manager"}},
      s \in BOOLEAN }

TenantContexts ==
  {None} \cup
  UNION { {Some(TenantContext(c, None))} \cup
          {Some(TenantContext(c, Some(TenantInfo(c, a)))) : a \in BOOLEAN} :
          c \in CompanyIds }

GuardRequest(user, tenantContext) ==
  [hostname |-> <<>>, headerCompanyId |-> "", token |-> user, user |-> user,
   tenantContext |-> tenantContext, tenantResolution |-> None]

InitStores ==
  /\ now = StartTime
  /\ storeActive = CompanyIds
  /\ storeUp = TRUE
  /\ storeModules = [c \in CompanyIds |-> {}]
  /\ tenantCache = [k \in CacheKeys |-> None]
  /\ cacheTimestamps = [k \in CacheKeys |-> None]
  /\ moduleCache = [c \in CompanyIds |-> None]
  /\ outcome = NoOutcome
  /\ InitThrottlerIdle
  /\ call = NoCall
  /\ pending = {}
  /\ history = NoHistory

InitTenantGuard ==
  /\ InitStores
  /\ pc = "guards"
  /\ req \in {GuardRequest(u, t) : u \in TenantGuardUsers, t \in TenantContexts}
  /\ route \in {[NoRoute EXCEPT !.tenant = m] :
                  m \in {None} \cup
                        {Some(RequireTenant(mode)) : mode \in TenantRequirementMode}}

NextTenantGuard == TenantGuard_canActivate

SpecTenantGuard == InitTenantGuard /\ [][NextTenantGuard]_vars

\* ------------------------------------------------------------------------
\* RoleGuard (the permission guard), in the two copies the repository holds
\* ------------------------------------------------------------------------
RequiredStrings == {"employees:read", "employees:write"}

Denied(guard, reason, named, required) ==
  Decision(guard, FALSE, 403, reason, named, required, "")

\* Mutant: the legacy role list is consulted first.
requiredPermissions_RolesFirst(permissionsKey, rolesKey) ==
  IF IsSome(rolesKey) THEN rolesKey ELSE permissionsKey

\* The list of required strings: @RequirePermissions / @HasPermission
\* metadata first, the legacy @Roles metadata only when that is undefined.
requiredPermissions(permissionsKey, rolesKey) ==
  IF IsSome(permissionsKey) THEN permissionsKey ELSE rolesKey

\* Mutant: every required permission must be held (AND instead of OR).
RoleGuard_decide_Every(permissionsKey, rolesKey, user) ==
  LET required == requiredPermissions(permissionsKey, rolesKey) IN
  IF ~IsSome(required)
  THEN Decision("RoleGuard", TRUE, 200, "", {}, None, "")
  ELSE IF ~IsSome(user)
  THEN Denied("RoleGuard", "Authentication required", {}, required)
  ELSE IF Val(user).isSuperadmin
  THEN Decision("RoleGuard", TRUE, 200, "", {}, required, "")
  ELSE IF ~IsSome(Val(user).permissions) \/ Val(Val(user).permissions) = {}
  THEN Denied("RoleGuard", "No permissions assigned", {}, required)
  ELSE IF \A p \in Val(required) : p \in Val(Val(user).permissions)
  THEN Decision("RoleGuard", TRUE, 200, "", {}, required, "")
  ELSE Denied("RoleGuard", "Access denied. Required permission(s)",
              Val(required), required)

\* RoleGuard.canActivate, the copy with the superadmin bypass
RoleGuard_decide(permissionsKey, rolesKey, user) ==
  LET required == requiredPermissions(permissionsKey, rolesKey) IN
  IF ~IsSome(required)
  THEN Decision("RoleGuard", TRUE, 200, "", {}, None, "")
  ELSE IF ~IsSome(user)
  THEN Denied("RoleGuard", "Authentication required", {}, required)
  ELSE IF Val(user).isSuperadmin
  THEN Decision("RoleGuard", TRUE, 200, "", {}, required, "")
  ELSE IF ~IsSome(Val(user).permissions) \/ Val(Val(user).permissions) = {}
  THEN Denied("RoleGuard", "No permissions assigned", {}, required)
  ELSE IF \E p \in Val(required) : p \in Val(Val(user).permissions)
  THEN Decision("RoleGuard", TRUE, 200, "", {}, required, "")
  ELSE Denied("RoleGuard", "Access denied. Required permission(s)",
              Val(required), required)

\* RoleGuard.canActivate, the copy in role.guard.ts
LegacyRoleGuard_decide(permissionsKey, rolesKey, user) ==
  LET required == requiredPermissions(permissionsKey, rolesKey) IN
  IF ~IsSome(required)
  THEN Decision("LegacyRoleGuard", TRUE, 200, "", {}, None, "")
  ELSE IF ~IsSome(user) \/ ~IsSome(Val(user).permissions)
  THEN Denied("LegacyRoleGuard", "Authentication required", {}, required)
  ELSE IF /\ Val(Val(user).permissions) # {}
          /\ \E p \in Val(required) : p \in Val(Val(user).permissions)
  THEN Decision("LegacyRoleGuard", TRUE, 200, "", {}, required, "")
  ELSE Denied("LegacyRoleGuard", "Access denied. Required permission(s)",
              Val(required), required)

RoleGuard_canActivate ==
  /\ pc = "guards"
  /\ outcome' = RoleGuard_decide(route.permissions, route.roles, req.user)
  /\ UNCHANGED <<throttlerVars, call, pending, history>>
  /\ UNCHANGED <<now, storeActive, storeUp, storeModules, tenantCache,
                 cacheTimestamps, moduleCache, req, pc, route>>

LegacyRoleGuard_canActivate ==
  /\ pc = "guards"
  /\ outcome' = LegacyRoleGuard_decide(route.permissions, route.roles, req.user)
  /\ UNCHANGED <<throttlerVars, call, pending, history>>
  /\ UNCHANGED <<now, storeActive, storeUp, storeModules, tenantCache,
                 cacheTimestamps, moduleCache, req, pc, route>>

\* The claims records and route metadata RoleGuard is exercised with.
RoleGuardUsers ==
  {None} \cup
  { Some(JwtPayload("cA", {}, p, s)) :
      p \in {None} \cup {Some(g) : g \in SUBSET RequiredStrings},
      s \in BOOLEAN }

RequiredLists == {None} \cup {Some(l) : l \in SUBSET RequiredStrings}

InitRoleGuard ==
  /\ InitStores
  /\ pc = "guards"
  /\ req \in {GuardRequest(u, None) : u \in RoleGuardUsers}
  /\ route \in {[NoRoute EXCEPT !.permissions = p, !.roles = r] :
                  p \in RequiredLists, r \in RequiredLists}

NextRoleGuard ==
  \/ RoleGuard_canActivate
  \/ LegacyRoleGuard_canActivate

SpecRoleGuard == InitRoleGuard /\ [][NextRoleGuard]_vars

\* ------------------------------------------------------------------------
\* ModuleGuard
\* ------------------------------------------------------------------------
\* RequireModule(modules, options) with the defaults filled in
RequireModule(modules, allowSuperadmin, requireAny) ==
  [modules |-> modules,
   options |-> [strict |-> TRUE, allowSuperadmin |-> allowSuperadmin,
                requireAny |-> requireAny]]

ModuleGuard_isSuperadmin(user) == user.isSuperadmin

getEnabledModules_StaleAtTTL(cache, companyId) ==
  IF IsSome(cache[companyId]) /\ Val(cache[companyId]).expires >= now
  THEN [ok |-> TRUE, modules |-> Val(cache[companyId]).modules,
        lookup |-> "cache", cache |-> cache]
  ELSE IF ~storeUp
  THEN [ok |-> FALSE, modules |-> {}, lookup |-> "store", cache |-> cache]
  ELSE [ok |-> TRUE, modules |-> storeModules[companyId], lookup |-> "store",
        cache |-> [cache EXCEPT ![companyId] =
                     Some([modules |-> storeModules[companyId],
                           expires |-> now + CACHE_TTL])]]

getEnabledModules_FailOpen(cache, companyId) ==
  IF IsSome(cache[companyId]) /\ Val(cache[companyId]).expires > now
  THEN [ok |-> TRUE, modules |-> Val(cache[companyId]).modules,
        lookup |-> "cache", cache |-> cache]
  ELSE IF ~storeUp
  THEN [ok |-> TRUE, modules |-> ModuleName, lookup |-> "store",
        cache |-> cache]
  ELSE [ok |-> TRUE, modules |-> storeModules[companyId], lookup |-> "store",
        cache |-> [cache EXCEPT ![companyId] =
                     Some([modules |-> storeModules[companyId],
                           expires |-> now + CACHE_TTL])]]

\* getEnabledModules: the set, where it came from and the cache it leaves;
\* a failing store query raises out of the guard.
getEnabledModules(cache, companyId) ==
  IF IsSome(cache[companyId]) /\ Val(cache[companyId]).expires > now
  THEN [ok |-> TRUE, modules |-> Val(cache[companyId]).modules,
        lookup |-> "cache", cache |-> cache]
  ELSE IF ~storeUp
  THEN [ok |-> FALSE, modules |-> {}, lookup |-> "store", cache |-> cache]
  ELSE [ok |-> TRUE, modules |-> storeModules[companyId], lookup |-> "store",
        cache |-> [cache EXCEPT ![companyId] =
                     Some([modules |-> storeModules[companyId],
                           expires |-> now + CACHE_TTL])]]

\* Mutant: requireAny is ignored, every listed module must be enabled.
validateModuleAccess_AlwaysAll(requirement, enabledModules, lookup) ==
  LET missingModules == requirement.modules \ enabledModules IN
  IF missingModules # {}
  THEN Decision("ModuleGuard", FALSE, 403,
                "requires the following modules to be enabled",
                missingModules, None, lookup)
  ELSE Decision("ModuleGuard", TRUE, 200, "", {}, None, lookup)

validateModuleAccess(requirement, enabledModules, lookup) ==
  IF requirement.options.requireAny
  THEN IF \E m \in requirement.modules : m \in enabledModules
       THEN Decision("ModuleGuard", TRUE, 200, "", {}, None, lookup)
       ELSE Decision("ModuleGuard", FALSE, 403,
                     "requires at least one of the following modules",
                     requirement.modules, None, lookup)
  ELSE LET missingModules == requirement.modules \ enabledModules IN
       IF missingModules # {}
       THEN Decision("ModuleGuard", FALSE, 403,
                     "requires the following modules to be enabled",
                     missingModules, None, lookup)
       ELSE Decision("ModuleGuard", TRUE, 200, "", {}, None, lookup)

\* The tenant-dependent part of canActivate
ModuleGuard_checkTenant(requirement, tenantContext, cache) ==
  IF ~IsSome(tenantContext) \/ Val(tenantContext).tenantId = ""
  THEN [decision |-> Forbidden("ModuleGuard",
                               "Tenant context required for module access validation"),
        cache |-> cache]
  ELSE
    LET got == getEnabledModules(cache, Val(tenantContext).tenantId) IN
    IF ~got.ok
    THEN [decision |-> Decision("ModuleGuard", FALSE, 500, "Database error",
                                {}, None, got.lookup),
          cache |-> got.cache]
    ELSE [decision |-> validateModuleAccess(requirement, got.modules, got.lookup),
          cache |-> got.cache]

\* Mutant: the tenant context is required before the superadmin bypass.
ModuleGuard_decide_TenantFirst(requirement, user, tenantContext, cache) ==
  IF ~IsSome(requirement)
  THEN [decision |-> Pass("ModuleGuard"), cache |-> cache]
  ELSE IF ~IsSome(user)
  THEN [decision |-> Forbidden("ModuleGuard",
                               "Authentication required for module access"),
        cache |-> cache]
  ELSE IF ~IsSome(tenantContext) \/ Val(tenantContext).tenantId = ""
  THEN [decision |-> Forbidden("ModuleGuard",
                               "Tenant context required for module access validation"),
        cache |-> cache]
  ELSE IF Val(requirement).options.allowSuperadmin
          /\ ModuleGuard_isSuperadmin(Val(user))
  THEN [decision |-> Pass("ModuleGuard"), cache |-> cache]
  ELSE ModuleGuard_checkTenant(Val(requirement), tenantContext, cache)

ModuleGuard_decide(requirement, user, tenantContext, cache) ==
  IF ~IsSome(requirement)
  THEN [decision |-> Pass("ModuleGuard"), cache |-> cache]
  ELSE IF ~IsSome(user)
  THEN [decision |-> Forbidden("ModuleGuard",
                               "Authentication required for module access"),
        cache |-> cache]
  ELSE IF Val(requirement).options.allowSuperadmin
          /\ ModuleGuard_isSuperadmin(Val(user))
  THEN [decision |-> Pass("ModuleGuard"), cache |-> cache]
  ELSE ModuleGuard_checkTenant(Val(requirement), tenantContext, cache)

ModuleGuard_canActivate ==
  /\ pc = "guards"
  /\ LET d == ModuleGuard_decide(route.module, req.user, req.tenantContext,
                                 moduleCache)
     IN  /\ outcome' = d.decision
         /\ moduleCache' = d.cache
  /\ UNCHANGED <<throttlerVars, call, pending, history>>
  /\ UNCHANGED <<now, storeActive, storeUp, storeModules, tenantCache,
                 cacheTimestamps, req, pc, route>>

\* A superadmin enables or disables a module of a company.
SetModuleEnabled ==
  /\ \E m \in ModuleName :
       storeModules' =
         [storeModules EXCEPT !["cA"] =
            IF m \in @ THEN @ \ {m} ELSE @ \cup {m}]
  /\ UNCHANGED <<throttlerVars, call, pending, history>>
  /\ UNCHANGED <<now, storeActive, storeUp, tenantCache, cacheTimestamps,
                 moduleCache, req, pc, route, outcome>>

\* The claims records, contexts and requirements ModuleGuard is exercised
\* with.
ModuleGuardUsers ==
  {None} \cup {Some(JwtPayload("cA", {}, Some({}), s)) : s \in BOOLEAN}

ModuleGuardContexts ==
  { None, Some(TenantContext("", None)),
    Some(TenantContext("cA", Some(TenantInfo("cA", TRUE)))) }

ModuleRequirements ==
  {None} \cup
  { Some(RequireModule(ms, a, r)) :
      ms \in {{"HRM"}, {"HRM", "PAYROLL"}}, a \in BOOLEAN, r \in BOOLEAN }

InitModuleGuard ==
  /\ InitStores
  /\ pc = "guards"
  /\ req \in {GuardRequest(u, t) :
                u \in ModuleGuardUsers, t \in ModuleGuardContexts}
  /\ route \in {[NoRoute EXCEPT !.module = m] : m \in ModuleRequirements}

NextModuleGuard ==
  \/ ModuleGuard_canActivate
  \/ SetModuleEnabled
  \/ Tick

SpecModuleGuard == InitModuleGuard /\ [][NextModuleGuard]_vars

\* ------------------------------------------------------------------------
\* ModuleGuard's cache over time: checks of company cA's requests while
\* modules are switched and the cache is cleared
\* ------------------------------------------------------------------------
\* ModuleGuard.clearModuleCache
clearModuleCache(cache, companyId) == [cache EXCEPT ![companyId] = None]

ModuleGuard_clearModuleCache ==
  /\ IsSome(moduleCache["cA"])
  /\ moduleCache' = clearModuleCache(moduleCache, "cA")
  /\ UNCHANGED <<throttlerVars, call, pending, history>>
  /\ UNCHANGED <<now, storeActive, storeUp, storeModules, tenantCache,
                 cacheTimestamps, req, pc, route, outcome>>

\* canActivate, with the time of the store query it makes noted.
ModuleGuard_canActivate_Timed ==
  /\ pc = "guards"
  /\ LET d == ModuleGuard_decide(route.module, req.user, req.tenantContext,
                                 moduleCache)
     IN  /\ outcome' = d.decision
         /\ moduleCache' = d.cache
         /\ history' =
              IF d.decision.lookup = "store"
              THEN [history EXCEPT
                      !.fetchedAt[Val(req.tenantContext).tenantId] = Some(now)]
              ELSE history
  /\ UNCHANGED <<throttlerVars, call, pending>>
  /\ UNCHANGED <<now, storeActive, storeUp, storeModules, tenantCache,
                 cacheTimestamps, req, pc, route>>

\* A superadmin enables or disables a module of company cA; the time a
\* module was disabled is noted until it is enabled again.
SetModuleEnabled_Timed ==
  /\ \E m \in ModuleName :
       /\ storeModules' =
            [storeModules EXCEPT !["cA"] =
               IF m \in @ THEN @ \ {m} ELSE @ \cup {m}]
       /\ history' =
            [history EXCEPT !.disabledAt[m] =
               IF m \in storeModules["cA"] THEN Some(now) ELSE None]
  /\ UNCHANGED <<throttlerVars, call, pending>>
  /\ UNCHANGED <<now, storeActive, storeUp, tenantCache, cacheTimestamps,
                 moduleCache, req, pc, route, outcome>>

ModuleCacheRequirements ==
  { Some(RequireModule({"HRM"}, TRUE, FALSE)),
    Some(RequireModule({"HRM", "PAYROLL"}, TRUE, TRUE)) }

InitModuleCache ==
  /\ InitStores
  /\ pc = "guards"
  /\ req \in {GuardRequest(Some(JwtPayload("cA", {}, Some({}), s)),
                            Some(TenantContext("cA", Some(TenantInfo("cA", TRUE))))) :
                 s \in BOOLEAN}
  /\ route \in {[NoRoute EXCEPT !.module = m] : m \in ModuleCacheRequirements}

NextModuleCache ==
  \/ ModuleGuard_canActivate_Timed
  \/ ModuleGuard_clearModuleCache
  \/ SetModuleEnabled_Timed
  \/ Tick

SpecModuleCache == InitModuleCache /\ [][NextModuleCache]_vars

\* ------------------------------------------------------------------------
\* CustomThrottlerGuard
\* ------------------------------------------------------------------------
\* url.includes(part), for the URLs and the parts the guard asks about
Includes(url, part) ==
  CASE url = "/auth/login" -> part \in {"/auth/", "/login"}
    [] url = "/auth/refresh" -> part \in {"/auth/", "/refresh"}
    [] url = "/auth/logout" -> part \in {"/auth/", "/logout"}
    [] url = "/auth/me" -> part \in {"/auth/"}
    [] OTHER -> FALSE

\* Math.ceil((blockedUntil - Date.now()) / 1000): a whole number of minutes
\* is a whole number of seconds
SecondsPerMinute == 60

getRateLimitsForEndpoint(request) ==
  LET isAuthEndpoint == Includes(request.url, "/auth/") IN
  IF isAuthEndpoint /\ Includes(request.url, "/login")
  THEN [limit |-> RATE_LIMIT_CONFIG.authLimit,
        ttl |-> RATE_LIMIT_CONFIG.authTtl]
  ELSE IF isAuthEndpoint /\ Includes(request.url, "/refresh")
  THEN [limit |-> RATE_LIMIT_CONFIG.authRefreshLimit,
        ttl |-> RATE_LIMIT_CONFIG.authTtl]
  ELSE IF isAuthEndpoint /\ Includes(request.url, "/logout")
  THEN [limit |-> RATE_LIMIT_CONFIG.authLogoutLimit,
        ttl |-> RATE_LIMIT_CONFIG.defaultTtl]
  ELSE [limit |-> RATE_LIMIT_CONFIG.defaultLimit,
        ttl |-> RATE_LIMIT_CONFIG.defaultTtl]

checkRateLimit_NoExpiry(store, key, limit, ttl) ==
  LET existing == store[key] IN
  IF ~IsSome(existing)
  THEN LET newData == RateLimitData(1, now, now + ttl)
       IN  [data |-> newData, store |-> [store EXCEPT ![key] = Some(newData)]]
  ELSE LET incremented == [Val(existing) EXCEPT !.count = @ + 1]
       IN  [data |-> incremented,
            store |-> [store EXCEPT ![key] = Some(incremented)]]

checkRateLimit_LostUpdate(store, key, limit, ttl) ==
  LET existing == store[key] IN
  IF ~IsSome(existing) \/ now - Val(existing).windowStart > ttl
  THEN LET newData == RateLimitData(1, now, now + ttl)
       IN  [data |-> newData, store |-> [store EXCEPT ![key] = Some(newData)]]
  ELSE LET incremented == [Val(existing) EXCEPT !.count = @ + 1]
       IN  [data |-> incremented, store |-> store]

\* Returns the window record of the request and the store it leaves.
checkRateLimit(store, key, limit, ttl) ==
  LET existing == store[key] IN
  IF ~IsSome(existing) \/ now - Val(existing).windowStart > ttl
  THEN LET newData == RateLimitData(1, now, now + ttl)
       IN  [data |-> newData, store |-> [store EXCEPT ![key] = Some(newData)]]
  ELSE LET incremented == [Val(existing) EXCEPT !.count = @ + 1]
       IN  [data |-> incremented,
            store |-> [store EXCEPT ![key] = Some(incremented)]]

Max(a, b) == IF a >= b THEN a ELSE b

addRateLimitHeaders(limit, rateLimitData) ==
  [limit |-> limit,
   remaining |-> Max(0, limit - rateLimitData.count),
   reset |-> rateLimitData.lastReset]

isIPBlocked_Inverted(blocked, ip) ==
  LET blockedUntil == blocked[ip] IN
  IF ~IsSome(blockedUntil) \/ Val(blockedUntil) = 0
  THEN [blocked |-> FALSE, blockedIPs |-> blocked]
  ELSE IF now < Val(blockedUntil)
  THEN [blocked |-> FALSE, blockedIPs |-> [blocked EXCEPT ![ip] = None]]
  ELSE [blocked |-> TRUE, blockedIPs |-> blocked]

isIPBlocked_Extends(blocked, ip) ==
  LET blockedUntil == blocked[ip] IN
  IF ~IsSome(blockedUntil) \/ Val(blockedUntil) = 0
  THEN [blocked |-> FALSE, blockedIPs |-> blocked]
  ELSE IF now > Val(blockedUntil)
  THEN [blocked |-> FALSE, blockedIPs |-> [blocked EXCEPT ![ip] = None]]
  ELSE [blocked |-> TRUE,
        blockedIPs |->
          [blocked EXCEPT ![ip] = Some(now + RATE_LIMIT_CONFIG.blockDuration)]]

isIPBlocked_Forgets(blocked, ip) ==
  LET blockedUntil == blocked[ip] IN
  IF ~IsSome(blockedUntil) \/ Val(blockedUntil) = 0
  THEN [blocked |-> FALSE, blockedIPs |-> blocked]
  ELSE [blocked |-> FALSE, blockedIPs |-> [blocked EXCEPT ![ip] = None]]

\* Returns the answer and the block map the check leaves.
isIPBlocked(blocked, ip) ==
  LET blockedUntil == blocked[ip] IN
  IF ~IsSome(blockedUntil) \/ Val(blockedUntil) = 0
  THEN [blocked |-> FALSE, blockedIPs |-> blocked]
  ELSE IF now > Val(blockedUntil)
  THEN [blocked |-> FALSE, blockedIPs |-> [blocked EXCEPT ![ip] = None]]
  ELSE [blocked |-> TRUE, blockedIPs |-> blocked]

logSecurityEvent(type) ==
  IF RATE_LIMIT_CONFIG.logViolations THEN type ELSE ""

handleRateLimitExceeded_AnyRoute(blocked, request, ip) ==
  IF RATE_LIMIT_CONFIG.enableBlocking
  THEN [blockedIPs |->
          [blocked EXCEPT ![ip] = Some(now + RATE_LIMIT_CONFIG.blockDuration)],
        event |-> logSecurityEvent("IP_BLOCKED")]
  ELSE [blockedIPs |-> blocked,
        event |-> logSecurityEvent("RATE_LIMIT_EXCEEDED")]

\* Returns the block map it leaves and the event it logs.
handleRateLimitExceeded(blocked, request, ip) ==
  LET isAuthEndpoint == Includes(request.url, "/auth/") IN
  IF isAuthEndpoint /\ RATE_LIMIT_CONFIG.enableBlocking
  THEN [blockedIPs |->
          [blocked EXCEPT ![ip] = Some(now + RATE_LIMIT_CONFIG.blockDuration)],
        event |-> logSecurityEvent("IP_BLOCKED")]
  ELSE [blockedIPs |-> blocked,
        event |-> logSecurityEvent("RATE_LIMIT_EXCEEDED")]

\* canActivate for one request: the window map and block map it leaves,
\* what it answers, and the count the request's window has reached.
canActivate(store, blocked, request) ==
  LET ip == getClientIP(request)
      chk == isIPBlocked(blocked, ip)
      evicted == chk.blockedIPs # blocked
  IN
  IF chk.blocked
  THEN
    LET blockedUntil == Val(blocked[ip])
        remainingTime == (blockedUntil - now) * SecondsPerMinute
    IN  [rateLimitStore |-> store,
         blockedIPs |-> chk.blockedIPs,
         response |-> Response(Some(request), FALSE, 429, None,
                               Some(remainingTime),
                               logSecurityEvent("BLOCKED_ACCESS_ATTEMPT"),
                               evicted),
         count |-> 0]
  ELSE
    LET lim == getRateLimitsForEndpoint(request)
        key == generateKey(request, ip)
        rl == checkRateLimit(store, key, lim.limit, lim.ttl)
        headers == addRateLimitHeaders(lim.limit, rl.data)
    IN  IF rl.data.count > lim.limit
        THEN
          LET ex == handleRateLimitExceeded(chk.blockedIPs, request, ip)
          IN  [rateLimitStore |-> rl.store,
               blockedIPs |-> ex.blockedIPs,
               response |-> Response(Some(request), FALSE, 429,
                                     Some(headers), None, ex.event, evicted),
               count |-> rl.data.count]
        ELSE
          [rateLimitStore |-> rl.store,
           blockedIPs |-> chk.blockedIPs,
           response |-> Response(Some(request), TRUE, 0, Some(headers), None,
                                 "", evicted),
           count |-> rl.data.count]

CustomThrottlerGuard_canActivate ==
  /\ \E request \in ThrottlerRequests :
       LET c == canActivate(rateLimitStore, blockedIPs, request)
       IN  /\ c.count <= MaxCount
           /\ rateLimitStore' = c.rateLimitStore
           /\ blockedIPs' = c.blockedIPs
           /\ response' = c.response
  /\ UNCHANGED <<now, storeActive, storeUp, storeModules, tenantCache,
                 cacheTimestamps, moduleCache, req, pc, route, outcome,
                 RATE_LIMIT_CONFIG, call, pending,
                 history>>

\* ------------------------------------------------------------------------
\* GlobalExceptionFilter: what the client receives for a thrown exception
\* ------------------------------------------------------------------------
NodeEnvs == {"development", "production"}

\* The HttpException canActivate throws for a rejection: its status and the
\* object it was constructed with.
ThrownHttpException(resp) ==
  [status |-> resp.status,
   name |-> "HttpException",
   response |->
     IF IsSome(resp.retryAfter)
     THEN [message |-> "Too many requests. IP blocked",
           statusCode |-> 429,
           error |-> "Rate Limit Exceeded",
           retryAfter |-> Val(resp.retryAfter)]
     ELSE [message |-> "Rate limit exceeded",
           statusCode |-> 429,
           error |-> "Rate Limit Exceeded"]]

\* GlobalExceptionFilter.catch for an HttpException built from an object:
\* the body passed to response.status(status).json(...).
GlobalExceptionFilter_catch(exception, request, nodeEnv) ==
  LET body ==
        [statusCode |-> exception.status,
         error |-> IF exception.response.error # ""
                   THEN exception.response.error ELSE exception.name,
         message |-> exception.response.message,
         timestamp |-> now,
         path |-> request.url,
         method |-> request.method]
  IN  IF nodeEnv = "development"
      THEN [f \in DOMAIN body \cup {"stack"} |->
              IF f = "stack" THEN "stack" ELSE body[f]]
      ELSE body

InitThrottler ==
  /\ now = StartTime
  /\ storeActive = CompanyIds
  /\ storeUp = TRUE
  /\ storeModules = [c \in CompanyIds |-> {}]
  /\ tenantCache = [k \in CacheKeys |-> None]
  /\ cacheTimestamps = [k \in CacheKeys |-> None]
  /\ moduleCache = [c \in CompanyIds |-> None]
  /\ req \in {GuardRequest(None, None)}
  /\ route = NoRoute
  /\ pc = "guards"
  /\ outcome = NoOutcome
  /\ RATE_LIMIT_CONFIG \in {getRateLimitConfig(e) : e \in EnableBlockingEnv}
  /\ rateLimitStore = [k \in RateLimitKeys |-> None]
  /\ blockedIPs = [ip \in ClientIPs |-> None]
  /\ response = NoResponse
  /\ call = NoCall
  /\ pending = {}
  /\ history = NoHistory

NextThrottler ==
  \/ CustomThrottlerGuard_canActivate
  \/ Tick

SpecThrottler == InitThrottler /\ [][NextThrottler]_vars

\* ------------------------------------------------------------------------
\* The rate limiter with the audit-log write of logSecurityEvent
\* ------------------------------------------------------------------------
logSecurityEvent_write_NoCatch(request, type, writeFails) ==
  IF type = "" THEN [audit |-> "", raised |-> FALSE]
  ELSE IF Includes(request.url, "/auth/")
  THEN IF writeFails
       THEN [audit |-> "failed", raised |-> TRUE]
       ELSE [audit |-> "written", raised |-> FALSE]
  ELSE [audit |-> "", raised |-> FALSE]

\* The database part of logSecurityEvent for an event that is logged (type
\* is "" when logViolations is off): whether authService.logAuthEvent was
\* called and failed, and whether logSecurityEvent raised.
logSecurityEvent_write(request, type, writeFails) ==
  IF type = "" THEN [audit |-> "", raised |-> FALSE]
  ELSE IF Includes(request.url, "/auth/")
  THEN IF writeFails
       THEN [audit |-> "failed", raised |-> FALSE]
       ELSE [audit |-> "written", raised |-> FALSE]
  ELSE [audit |-> "", raised |-> FALSE]

\* canActivate with the log write succeeding or failing. The maps are
\* updated before logSecurityEvent is awaited; an error raised by it would
\* leave canActivate in place of the HttpException. outcome.lookup records
\* what became of the log write.
CustomThrottlerGuard_canActivate_Logged ==
  /\ \E request \in ThrottlerRequests, writeFails \in BOOLEAN :
       LET c == canActivate(rateLimitStore, blockedIPs, request)
           log == logSecurityEvent_write(request, c.response.event,
                                         writeFails)
       IN  /\ c.count <= MaxCount
           /\ rateLimitStore' = c.rateLimitStore
           /\ blockedIPs' = c.blockedIPs
           /\ response' = IF log.raised
                          THEN [c.response EXCEPT !.status = 500,
                                                  !.retryAfter = None]
                          ELSE c.response
           /\ outcome' = Decision("CustomThrottlerGuard", response'.pass,
                                  response'.status, "", {}, None, log.audit)
  /\ UNCHANGED <<now, storeActive, storeUp, storeModules, tenantCache,
                 cacheTimestamps, moduleCache, req, pc, route,
                 RATE_LIMIT_CONFIG, call, pending,
                 history>>

\* Requests arrive within one window.
NextThrottlerLog ==
  \/ CustomThrottlerGuard_canActivate_Logged

SpecThrottlerLog == InitThrottler /\ [][NextThrottlerLog]_vars

\* ------------------------------------------------------------------------
\* The rate limiter under concurrent requests. canActivate runs without
\* interruption up to its first await, which is the log write of a
\* rejection (logSecurityEvent); an accepted request never awaits. Other
\* requests run while a rejected one waits for its log write.
\* ------------------------------------------------------------------------
\* No more than this many different rejections wait for their log write
\* at a time.
MaxPending == 2

ConcurrentRequests ==
  {r \in ThrottlerRequests : r.url \in {"/users", "/auth/me"}}

\* The accepted requests of the key's window, after a request that left
\* the window map as after and was accepted or not.
acceptedInWindow(before, after, key, pass) ==
  LET newWindow == \/ ~IsSome(before[key])
                   \/ Val(after[key]).windowStart # Val(before[key]).windowStart
      sofar == IF newWindow THEN 0 ELSE history.accepted[key]
  IN  IF pass THEN sofar + 1 ELSE sofar

\* canActivate up to its return (accepted) or its first await (rejected).
CustomThrottlerGuard_canActivate_Start ==
  /\ \E request \in ConcurrentRequests :
       LET c == canActivate(rateLimitStore, blockedIPs, request)
           ip == getClientIP(request)
           key == generateKey(request, ip)
           wroteBlock == /\ c.count > 0
                         /\ ~c.response.pass
                         /\ IsSome(c.blockedIPs[ip])
       IN  /\ c.count <= RATE_LIMIT_DEFAULT + 1
           /\ rateLimitStore' = c.rateLimitStore
           /\ blockedIPs' = c.blockedIPs
           /\ IF c.response.pass
              THEN /\ response' = c.response
                   /\ pending' = pending
              ELSE /\ c.response \in pending
                      \/ Cardinality(pending) < MaxPending
                   /\ response' = response
                   /\ pending' = pending \cup {c.response}
           /\ history' =
                [history EXCEPT
                   !.accepted[key] =
                      IF c.count > 0
                      THEN acceptedInWindow(rateLimitStore, c.rateLimitStore,
                                            key, c.response.pass)
                      ELSE @,
                   !.blockedUntil[ip] =
                      IF wroteBlock THEN c.blockedIPs[ip] ELSE @,
                   !.blockDuration[ip] =
                      IF wroteBlock THEN Some(Val(c.blockedIPs[ip]) - now)
                      ELSE @]
  /\ UNCHANGED <<now, storeActive, storeUp, storeModules, tenantCache,
                 cacheTimestamps, moduleCache, req, pc, route, outcome,
                 RATE_LIMIT_CONFIG, call>>

\* The log write of a rejected request has completed: canActivate throws.
\* pending holds the answers that wait to be thrown; requests that wait
\* with the same answer are one element of it.
CustomThrottlerGuard_canActivate_Finish ==
  /\ \E p \in pending :
       /\ response' = p
       /\ pending' = pending \ {p}
  /\ UNCHANGED <<now, storeActive, storeUp, storeModules, tenantCache,
                 cacheTimestamps, moduleCache, req, pc, route, outcome,
                 RATE_LIMIT_CONFIG, rateLimitStore, blockedIPs, call,
                 history>>

\* Time passes also while log writes are awaited.
NextThrottlerConcurrent ==
  \/ CustomThrottlerGuard_canActivate_Start
  \/ CustomThrottlerGuard_canActivate_Finish
  \/ Tick

SpecThrottlerConcurrent ==
  InitThrottler /\ [][NextThrottlerConcurrent]_vars

\* ------------------------------------------------------------------------
\* TenantResolverService called directly
\* ------------------------------------------------------------------------
\* The subdomains and company ids the resolver is called with ("cZ" is the
\* id of no company).
SubdomainArgs == {"abc", "xyz", "nope", ""}

CompanyIdArgs == CompanyIds \cup {"cZ", ""}

resolverFrame ==
  <<now, storeActive, storeUp, storeModules, moduleCache, req, pc, route,
    outcome, throttlerVars, pending, history>>

\* One call of resolveFromSubdomain with the given argument, and what the
\* call did to the cache.
resolveFromSubdomainCall(subdomain) ==
  LET r == resolveFromSubdomain(tenantCache, cacheTimestamps, subdomain)
      got == getCachedTenant(tenantCache, cacheTimestamps, subdomain)
      hit == subdomain # "" /\ IsSome(got.hit)
      evicted == /\ subdomain # ""
                 /\ IsSome(tenantCache[subdomain])
                 /\ ~IsSome(got.cache[subdomain])
      afterJWT == /\ call.op = "resolveFromJWT"
                  /\ call.result.success
                  /\ Val(call.result.tenantInfo).subdomain = subdomain
  IN  /\ tenantCache' = r.cache
      /\ cacheTimestamps' = r.stamps
      /\ call' = ResolverCall("resolveFromSubdomain", subdomain,
                              r.result, hit, evicted, afterJWT)

TenantResolver_resolveFromSubdomain ==
  /\ \E subdomain \in SubdomainArgs : resolveFromSubdomainCall(subdomain)
  /\ UNCHANGED resolverFrame

TenantResolver_resolveFromJWT ==
  /\ \E companyId \in CompanyIdArgs :
       LET r == resolveFromJWT(tenantCache, cacheTimestamps, companyId)
       IN  /\ tenantCache' = r.cache
           /\ cacheTimestamps' = r.stamps
           /\ call' = ResolverCall("resolveFromJWT", companyId, r.result,
                                   FALSE, FALSE, FALSE)
  /\ UNCHANGED resolverFrame

TenantResolver_resolveFromHeader ==
  /\ \E companyId \in CompanyIdArgs :
       LET r == resolveFromHeader(tenantCache, cacheTimestamps, companyId)
       IN  /\ tenantCache' = r.cache
           /\ cacheTimestamps' = r.stamps
           /\ call' = ResolverCall("resolveFromHeader", companyId, r.result,
                                   FALSE, FALSE, FALSE)
  /\ UNCHANGED resolverFrame

TenantResolver_clearCache ==
  /\ tenantCache' = [k \in CacheKeys |-> None]
  /\ cacheTimestamps' = [k \in CacheKeys |-> None]
  /\ call' = ResolverCall("clearCache", "", Failure("", ""), FALSE,
                          tenantCache # [k \in CacheKeys |-> None], FALSE)
  /\ UNCHANGED resolverFrame

\* The data store goes down or comes back.
SetStoreUp ==
  /\ storeUp' = ~storeUp
  /\ UNCHANGED <<now, storeActive, storeModules, tenantCache,
                 cacheTimestamps, moduleCache, req, pc, route, outcome,
                 throttlerVars, call, pending,
                 history>>

InitResolver ==
  /\ InitStores
  /\ req = GuardRequest(None, None)
  /\ route = NoRoute
  /\ pc = "resolver"

NextResolver ==
  \/ TenantResolver_resolveFromSubdomain
  \/ TenantResolver_resolveFromJWT
  \/ TenantResolver_resolveFromHeader
  \/ TenantResolver_clearCache
  \/ Tick
  \/ SetCompanyActive
  \/ SetStoreUp

SpecResolver == InitResolver /\ [][NextResolver]_vars

\* ------------------------------------------------------------------------
\* resolveFromSubdomain called with two spellings of one subdomain
\* ------------------------------------------------------------------------
Spellings == {"abc", "ABC"}

TenantResolver_resolveFromSubdomain_Spelled ==
  /\ \E subdomain \in Spellings : resolveFromSubdomainCall(subdomain)
  /\ UNCHANGED resolverFrame

NextSpelling ==
  \/ TenantResolver_resolveFromSubdomain_Spelled
  \/ Tick
  \/ SetCompanyActive

SpecSpelling == InitResolver /\ [][NextSpelling]_vars

\* ------------------------------------------------------------------------
\* The resolver under concurrent calls. A call runs without interruption
\* up to its store query (await prisma.company.findUnique) and again from
\* the query's answer to its return; other calls, the clock and the
\* company directory move while the query is in flight.
\* ------------------------------------------------------------------------
\* The calls made: for the subdomain and the id of company cA.
ConcurrentCalls ==
  { [op |-> "resolveFromSubdomain", arg |-> "abc"],
    [op |-> "resolveFromJWT", arg |-> "cA"],
    [op |-> "resolveFromHeader", arg |-> "cA"] }

\* The store query of a call, answered from the directory as it is now.
findUnique(op, arg) ==
  IF op = "resolveFromSubdomain"
  THEN FindCompanyBySubdomain(ToLower(arg))
  ELSE FindCompanyById(arg)

\* A call up to its return from the cache or up to its store query. The
\* call in flight is kept with what it was called with, when, and what its
\* store query found.
TenantResolver_Start ==
  /\ \E c \in ConcurrentCalls :
       LET got == getCachedTenant(tenantCache, cacheTimestamps, c.arg)
           hit == c.op = "resolveFromSubdomain" /\ IsSome(got.hit)
       IN  IF hit
           THEN /\ call' = ResolverCall(c.op, c.arg,
                                        Success(Val(got.hit), "subdomain"),
                                        TRUE, FALSE, FALSE)
                /\ UNCHANGED <<tenantCache, cacheTimestamps, pending>>
           ELSE /\ Cardinality(pending) < MaxPending
                /\ pending' = pending \cup
                     {[id |-> CHOOSE i \in 1..MaxPending :
                                \A q \in pending : q.id # i,
                       op |-> c.op, arg |-> c.arg, start |-> now,
                       ok |-> storeUp,
                       company |-> findUnique(c.op, c.arg)]}
                /\ IF c.op = "resolveFromSubdomain"
                   THEN /\ tenantCache' = got.cache
                        /\ cacheTimestamps' = got.stamps
                   ELSE UNCHANGED <<tenantCache, cacheTimestamps>>
                /\ call' = call
  /\ UNCHANGED <<now, storeActive, storeUp, storeModules, moduleCache, req,
                 pc, route, outcome, throttlerVars, history>>

\* The store query of a call has answered: the call caches what was found
\* under the time it is now, and returns.
TenantResolver_Finish ==
  /\ \E p \in pending :
       LET source == CASE p.op = "resolveFromSubdomain" -> "subdomain"
                       [] p.op = "resolveFromJWT" -> "jwt"
                       [] OTHER -> "header"
       IN
       /\ pending' = pending \ {p}
       /\ IF ~p.ok
          THEN /\ call' = ResolverCall(p.op, p.arg,
                                       Failure(source, "Database error"),
                                       FALSE, FALSE, FALSE)
               /\ UNCHANGED <<tenantCache, cacheTimestamps>>
          ELSE IF ~IsSome(p.company)
          THEN /\ call' = ResolverCall(p.op, p.arg,
                             Failure(source,
                                     IF p.op = "resolveFromSubdomain"
                                     THEN "No active company found for subdomain"
                                     ELSE "Invalid or inactive company ID"),
                             FALSE, FALSE, FALSE)
               /\ UNCHANGED <<tenantCache, cacheTimestamps>>
          ELSE LET info == TenantInfo(Val(p.company), TRUE)
                   key == IF p.op = "resolveFromSubdomain" THEN p.arg
                          ELSE info.subdomain
                   put == setCachedTenant(tenantCache, cacheTimestamps,
                                          key, info)
               IN  /\ tenantCache' = put.cache
                   /\ cacheTimestamps' = put.stamps
                   /\ call' = ResolverCall(p.op, p.arg,
                                           Success(info, source),
                                           FALSE, FALSE, FALSE)
  /\ UNCHANGED <<now, storeActive, storeUp, storeModules, moduleCache, req,
                 pc, route, outcome, throttlerVars, history>>

\* An administrator deactivates or reactivates company cA; the time of the
\* deactivation is noted until the company is active again.
SetCompanyActive_Timed ==
  /\ storeActive' = IF "cA" \in storeActive THEN storeActive \ {"cA"}
                    ELSE storeActive \cup {"cA"}
  /\ history' = [history EXCEPT !.deactivatedAt["cA"] =
                   IF "cA" \in storeActive THEN Some(now) ELSE None]
  /\ UNCHANGED <<throttlerVars, call, pending>>
  /\ UNCHANGED <<now, storeUp, storeModules, tenantCache, cacheTimestamps,
                 moduleCache, req, pc, route, outcome>>

NextResolverConcurrent ==
  \/ TenantResolver_Start
  \/ TenantResolver_Finish
  \/ SetCompanyActive_Timed
  \/ Tick

SpecResolverConcurrent == InitResolver /\ [][NextResolverConcurrent]_vars

\* ------------------------------------------------------------------------
\* The two tenant-context stages, each called on requests of its own
\* ------------------------------------------------------------------------
\* use is handed requests nobody has authenticated yet; intercept is handed
\* requests with or without an identity and with any tenant context.
MiddlewareInputs == NewRequests

InterceptorInputs ==
  { GuardRequest(u, t) :
      u \in {None} \cup {Some(v) : v \in PipelineUsers},
      t \in TenantContexts }

stageFrame ==
  <<now, storeActive, storeUp, storeModules, moduleCache, route, outcome,
    throttlerVars, call, pending,
    history>>

\* The catch block of use: something inside the try block raised.
TenantContextMiddleware_catch ==
  /\ pc = "middleware"
  /\ req' = [req EXCEPT
               !.tenantResolution =
                  Some(Failure("fallback", "Middleware error"))]
  /\ pc' = "guard"
  /\ UNCHANGED <<tenantCache, cacheTimestamps, stageFrame>>

\* The catch block of intercept: resolveFromJWT raised.
TenantContextInterceptor_catch ==
  /\ pc = "interceptor"
  /\ IsSome(req.user)
  /\ Val(req.user).companyId # ""
  /\ ~(IsSome(req.tenantContext)
        /\ IsSome(Val(req.tenantContext).tenantInfo))
  /\ pc' = "handler"
  /\ UNCHANGED <<req, tenantCache, cacheTimestamps, stageFrame>>

StageRequest ==
  /\ pc \in {"guard", "handler"}
  /\ \/ req' \in MiddlewareInputs /\ pc' = "middleware"
     \/ req' \in InterceptorInputs /\ pc' = "interceptor"
  /\ UNCHANGED <<tenantCache, cacheTimestamps, stageFrame>>

InitStage ==
  /\ InitStores
  /\ route = NoRoute
  /\ \/ req \in MiddlewareInputs /\ pc = "middleware"
     \/ req \in InterceptorInputs /\ pc = "interceptor"

NextStage ==
  \/ TenantContextMiddleware_use
  \/ TenantContextMiddleware_catch
  \/ TenantContextInterceptor_intercept
  \/ TenantContextInterceptor_catch
  \/ StageRequest
  \/ SetCompanyActive
  \/ SetStoreUp

SpecStage == InitStage /\ [][NextStage]_vars

\* ------------------------------------------------------------------------
\* The middleware on Host headers of every shape, with the subdomain it
\* hands to resolveFromSubdomain
\* ------------------------------------------------------------------------
ExtractHostnames ==
  { <<"abc", "myerp", "com">>, <<"ABC", "myerp", "com">>,
    <<"www", "myerp", "com">>, <<"WWW", "myerp", "com">>,
    <<"myerp", "com">>, <<"localhost:3000">>, <<"abc", "localhost">>,
    <<"10", "0", "0", "1">>, <<>> }

ExtractRequests ==
  [hostname : ExtractHostnames,
   headerCompanyId : {"", "cB"},
   token : {None},
   user : {None},
   tenantContext : {None},
   tenantResolution : {None}]

\* use, with the resolveFromSubdomain call it makes (it makes one exactly
\* when extractSubdomain yields a label, no identity being known yet).
TenantContextMiddleware_use_Subdomain ==
  /\ useEffect("middleware", "guard")
  /\ LET sources == extractTenantSources(req) IN
     call' = IF sources.subdomain # ""
             THEN ResolverCall("resolveFromSubdomain", sources.subdomain,
                               resolveFromSubdomain(
                                 tenantCache, cacheTimestamps,
                                 sources.subdomain).result,
                               FALSE, FALSE, FALSE)
             ELSE NoCall

ExtractRequest ==
  /\ pc = "guard"
  /\ req' \in ExtractRequests
  /\ pc' = "middleware"
  /\ UNCHANGED <<tenantCache, cacheTimestamps, stageFrame>>

InitExtract ==
  /\ InitStores
  /\ route = NoRoute
  /\ req \in ExtractRequests
  /\ pc = "middleware"

NextExtract ==
  \/ TenantContextMiddleware_use_Subdomain
  \/ ExtractRequest
  \/ SetCompanyActive

SpecExtract == InitExtract /\ [][NextExtract]_vars

\* ------------------------------------------------------------------------
\* One request through the whole chain, in the order the framework runs it:
\* middleware, the global guard (rate limiter), the route's guards, the
\* interceptor, the handler
\* ------------------------------------------------------------------------
FlowUsers ==
  { JwtPayload("cA", {}, Some({}), FALSE),
    JwtPayload("cA", {"superadmin"}, Some({}), TRUE) }

FlowRequests ==
  [hostname : {<<"abc", "myerp", "com">>, <<"localhost:3000">>},
   headerCompanyId : {""},
   token : {None} \cup {Some(u) : u \in FlowUsers},
   user : {None},
   tenantContext : {None},
   tenantResolution : {None}]

\* Routes behind JwtGuard, with or without @Tenant('strict') and
\* @RequireModules.
FlowRoutes ==
  { [NoRoute EXCEPT !.jwtGuard = TRUE, !.tenant = t, !.module = m] :
      t \in {None, Some(RequireTenant("strict"))},
      m \in {None, Some(RequireModule({"HRM"}, TRUE, FALSE))} }

\* What the rate limiter sees of the request.
FlowThrottlerRequests ==
  {r \in ThrottlerRequests : r.url \in {"/users", "/auth/me"}}

Flow_TenantContextMiddleware == use("f_middleware", "f_throttler")

Flow_CustomThrottlerGuard ==
  /\ pc = "f_throttler"
  /\ \E request \in FlowThrottlerRequests :
       LET c == canActivate(rateLimitStore, blockedIPs, request)
       IN  /\ c.count <= MaxCount
           /\ rateLimitStore' = c.rateLimitStore
           /\ blockedIPs' = c.blockedIPs
           /\ response' = c.response
  /\ pc' = IF response'.pass THEN "f_jwt" ELSE "rejected"
  /\ UNCHANGED <<now, storeActive, storeUp, storeModules, tenantCache,
                 cacheTimestamps, moduleCache, req, route, outcome,
                 RATE_LIMIT_CONFIG, call, pending,
                 history>>

Flow_JwtGuard == JwtGuard_canActivate("f_jwt", "f_tenant")

Flow_TenantGuard ==
  /\ pc = "f_tenant"
  /\ outcome' = TenantGuard_decide(route.tenant, req.user, req.tenantContext)
  /\ pc' = IF outcome'.pass THEN "f_module" ELSE "rejected"
  /\ UNCHANGED <<throttlerVars, call, pending, history>>
  /\ UNCHANGED <<now, storeActive, storeUp, storeModules, tenantCache,
                 cacheTimestamps, moduleCache, req, route>>

Flow_ModuleGuard ==
  /\ pc = "f_module"
  /\ LET d == ModuleGuard_decide(route.module, req.user, req.tenantContext,
                                 moduleCache)
     IN  /\ outcome' = d.decision
         /\ moduleCache' = d.cache
  /\ pc' = IF outcome'.pass THEN "f_interceptor" ELSE "rejected"
  /\ UNCHANGED <<throttlerVars, call, pending, history>>
  /\ UNCHANGED <<now, storeActive, storeUp, storeModules, tenantCache,
                 cacheTimestamps, req, route>>

Flow_TenantContextInterceptor == intercept("f_interceptor", "handler")

Flow_NewRequest ==
  /\ pc \in {"handler", "rejected"}
  /\ req' \in FlowRequests
  /\ route' \in FlowRoutes
  /\ pc' = "f_middleware"
  /\ outcome' = NoOutcome
  /\ response' = NoResponse
  /\ UNCHANGED <<now, storeActive, storeUp, storeModules, tenantCache,
                 cacheTimestamps, moduleCache, RATE_LIMIT_CONFIG,
                 rateLimitStore, blockedIPs, call, pending,
                 history>>

InitFlow ==
  /\ now = StartTime
  /\ storeActive = CompanyIds
  /\ storeUp = TRUE
  /\ storeModules = [c \in CompanyIds |-> {"HRM"}]
  /\ tenantCache = [k \in CacheKeys |-> None]
  /\ cacheTimestamps = [k \in CacheKeys |-> None]
  /\ moduleCache = [c \in CompanyIds |-> None]
  /\ req \in FlowRequests
  /\ route \in FlowRoutes
  /\ pc = "f_middleware"
  /\ outcome = NoOutcome
  /\ InitThrottlerIdle
  /\ call = NoCall
  /\ pending = {}
  /\ history = NoHistory

NextFlow ==
  \/ Flow_TenantContextMiddleware
  \/ Flow_CustomThrottlerGuard
  \/ Flow_JwtGuard
  \/ Flow_TenantGuard
  \/ Flow_ModuleGuard
  \/ Flow_TenantContextInterceptor
  \/ Flow_NewRequest
  \/ SetStoreUp

SpecFlow == InitFlow /\ [][NextFlow]_vars

\* ------------------------------------------------------------------------
\* UserController: routes behind JwtGuard and TenantGuard whose handlers
\* take the tenant id from the @Tenant() parameter decorator
\* ------------------------------------------------------------------------
\* @Tenant() / @Tenant('id'): the tenant id the handler is called with.
Tenant(r) ==
  IF IsSome(r.tenantContext) /\ IsSome(Val(r.tenantContext).tenantInfo)
  THEN Val(r.tenantContext).tenantId
  ELSE IF IsSome(r.user) /\ Val(r.user).companyId # ""
  THEN Val(r.user).companyId
  ELSE "unknown"

UserRouteUsers ==
  { JwtPayload("cA", {}, Some({}), FALSE),
    JwtPayload("cA", {"hr-manager"}, Some({}), FALSE),
    JwtPayload("", {}, Some({}), FALSE),
    JwtPayload("cA", {"superadmin"}, Some({}), TRUE) }

UserRouteRequests ==
  [hostname : {<<"abc", "myerp", "com">>, <<"xyz", "myerp", "com">>,
               <<"localhost:3000">>},
   headerCompanyId : {"", "cA", "cB"},
   token : {None} \cup {Some(u) : u \in UserRouteUsers},
   user : {None},
   tenantContext : {None},
   tenantResolution : {None}]

\* @RequireTenant(mode) @UseGuards(TenantGuard) under the class's
\* @UseGuards(JwtGuard).
UserRoutes ==
  { [NoRoute EXCEPT !.jwtGuard = TRUE, !.tenant = Some(RequireTenant(mode))] :
      mode \in TenantRequirementMode }

UserRoute_TenantContextMiddleware == use("u_middleware", "u_jwt")

UserRoute_JwtGuard == JwtGuard_canActivate("u_jwt", "u_tenant")

UserRoute_TenantGuard ==
  /\ pc = "u_tenant"
  /\ outcome' = TenantGuard_decide(route.tenant, req.user, req.tenantContext)
  /\ pc' = IF outcome'.pass THEN "u_interceptor" ELSE "rejected"
  /\ UNCHANGED <<throttlerVars, call, pending, history>>
  /\ UNCHANGED <<now, storeActive, storeUp, storeModules, tenantCache,
                 cacheTimestamps, moduleCache, req, route>>

\* The route is bound with TenantContextInterceptor ...
UserRoute_TenantContextInterceptor == intercept("u_interceptor", "handler")

\* ... or, as UserController is, without it.
UserRoute_NoInterceptor ==
  /\ pc = "u_interceptor"
  /\ pc' = "handler"
  /\ UNCHANGED <<throttlerVars, call, pending, history>>
  /\ UNCHANGED <<now, storeActive, storeUp, storeModules, tenantCache,
                 cacheTimestamps, moduleCache, req, route, outcome>>

UserRoute_NewRequest ==
  /\ pc \in {"handler", "rejected"}
  /\ req' \in UserRouteRequests
  /\ route' \in UserRoutes
  /\ pc' = "u_middleware"
  /\ outcome' = NoOutcome
  /\ UNCHANGED <<throttlerVars, call, pending, history>>
  /\ UNCHANGED <<now, storeActive, storeUp, storeModules, tenantCache,
                 cacheTimestamps, moduleCache>>

InitUserRoute ==
  /\ InitStores
  /\ req \in UserRouteRequests
  /\ route \in UserRoutes
  /\ pc = "u_middleware"

NextUserRoute ==
  \/ UserRoute_TenantContextMiddleware
  \/ UserRoute_JwtGuard
  \/ UserRoute_TenantGuard
  \/ UserRoute_TenantContextInterceptor
  \/ UserRoute_NoInterceptor
  \/ UserRoute_NewRequest
  \/ SetCompanyActive

SpecUserRoute == InitUserRoute /\ [][NextUserRoute]_vars

\* ------------------------------------------------------------------------
\* Properties of tenant resolution
\* ------------------------------------------------------------------------

\* The company the Host subdomain of the in-flight request was resolved to
\* by the pre-auth stage ("" when the stage did not resolve by subdomain).
SubdomainTenant ==
  IF IsSome(req.tenantResolution)
     /\ Val(req.tenantResolution).success
     /\ Val(req.tenantResolution).source = "subdomain"
  THEN Val(req.tenantResolution).tenantId
  ELSE ""

\* The request carries a verified claim for active company A while its Host
\* subdomain was resolved to a different active company B.
ClaimConflictsWithSubdomain ==
  /\ IsSome(req.user)
  /\ Val(req.user).companyId \in storeActive
  /\ storeUp
  /\ SubdomainTenant \in storeActive
  /\ SubdomainTenant # Val(req.user).companyId

\* C1: when a request carries a valid verified claim for active company A
\* and its Host subdomain resolved to a different active company B, the
\* tenant context the enhancer leaves on the request has tenantId = A.
C1_ClaimWinsOverSubdomain ==
  [][(TenantContextInterceptor_intercept /\ ClaimConflictsWithSubdomain)
       => /\ IsSome(req'.tenantContext)
          /\ Val(req'.tenantContext).tenantId = Val(req.user).companyId]_vars

\* ------------------------------------------------------------------------
\* Properties of TenantGuard
\* ------------------------------------------------------------------------
TenantGuardRan ==
  /\ outcome.guard = "TenantGuard"
  /\ IsSome(route.tenant)
  /\ IsSome(req.user)

TenantMode == Val(route.tenant).mode

HasSuperadminRole == "superadmin" \in Val(req.user).roleIds

ContextMatchesCompany ==
  /\ IsSome(req.tenantContext)
  /\ Val(req.tenantContext).tenantId = Val(req.user).companyId

StrictConditions ==
  /\ ContextMatchesCompany
  /\ IsSome(Val(req.tenantContext).tenantInfo)
  /\ Val(Val(req.tenantContext).tenantInfo).isActive

\* C2: in basic or allow-superadmin mode, an identity that is not bypassed
\* and has a companyId passes iff the request has no tenant context or the
\* context's tenantId equals the identity's companyId.
C2_BasicAccess ==
  (/\ TenantGuardRan
   /\ TenantMode \in {"basic", "allow-superadmin"}
   /\ ~HasSuperadminRole
   /\ Val(req.user).companyId # "")
  => (outcome.pass <=> (~IsSome(req.tenantContext) \/ ContextMatchesCompany))

C2_Witness ==
  /\ TenantGuardRan
  /\ TenantMode = "basic"
  /\ ~HasSuperadminRole
  /\ Val(req.user).companyId = "cA"
  /\ IsSome(req.tenantContext)
  /\ Val(req.tenantContext).tenantId = "cB"
  /\ ~outcome.pass
  /\ outcome.status = 403

\* C3: in strict mode an identity that is not bypassed passes only if the
\* request has a tenant context with tenantInfo, whose tenantId equals the
\* identity's companyId and whose company is active; a context without
\* tenantInfo is rejected even when its tenantId matches.
C3_StrictAccess ==
  (/\ TenantGuardRan
   /\ TenantMode = "strict"
   /\ ~HasSuperadminRole)
  => /\ outcome.pass => StrictConditions
     /\ (ContextMatchesCompany
         /\ ~IsSome(Val(req.tenantContext).tenantInfo)) => ~outcome.pass

C3_Witness ==
  /\ TenantGuardRan
  /\ TenantMode = "strict"
  /\ ~HasSuperadminRole
  /\ ContextMatchesCompany
  /\ ~IsSome(Val(req.tenantContext).tenantInfo)
  /\ ~outcome.pass

C5_BlockSuperadmin ==
  /\ IsSome(route.tenant)
       => (Val(route.tenant).allowSuperadmin
             <=> Val(route.tenant).mode # "block-superadmin")
  /\ (/\ TenantGuardRan
      /\ TenantMode = "block-superadmin"
      /\ (HasSuperadminRole \/ Val(req.user).isSuperadmin))
     => (outcome.pass <=> (Val(req.user).companyId # "" /\ StrictConditions))

C5_Witness ==
  /\ TenantGuardRan
  /\ TenantMode = "block-superadmin"
  /\ HasSuperadminRole
  /\ Val(req.user).isSuperadmin
  /\ ~IsSome(req.tenantContext)
  /\ ~outcome.pass

\* ------------------------------------------------------------------------
\* Properties of RoleGuard
\* ------------------------------------------------------------------------
RoleGuardRan == outcome.guard \in {"RoleGuard", "LegacyRoleGuard"}

\* The required list of the route: the fine-grained one when declared.
RouteRequired ==
  IF IsSome(route.permissions) THEN route.permissions ELSE route.roles

UserPermissions ==
  IF IsSome(Val(req.user).permissions) THEN Val(Val(req.user).permissions)
  ELSE {}

NamesRequired ==
  /\ outcome.reason = "Access denied. Required permission(s)"
  /\ outcome.named = Val(RouteRequired)

\* C6: on a route with a permission requirement the permission guard passes
\* every authenticated identity with isSuperadmin = true, whatever its
\* permission set (empty and absent included).
C6_SuperadminPasses ==
  (/\ RoleGuardRan
   /\ IsSome(route.permissions)
   /\ IsSome(req.user)
   /\ Val(req.user).isSuperadmin)
  => outcome.pass

C8_RequirementPrecedence ==
  RoleGuardRan
  => /\ IsSome(route.permissions) => outcome.required = route.permissions
     /\ (~IsSome(route.permissions) /\ IsSome(route.roles))
          => outcome.required = route.roles
     /\ (~IsSome(route.permissions) /\ ~IsSome(route.roles)) => outcome.pass

C8_Witness ==
  /\ outcome.guard = "RoleGuard"
  /\ route.permissions = Some({"employees:read"})
  /\ route.roles = Some({"employees:write"})
  /\ IsSome(req.user)
  /\ ~Val(req.user).isSuperadmin
  /\ UserPermissions = {"employees:write"}
  /\ outcome.required = Some({"employees:read"})
  /\ ~outcome.pass

\* ------------------------------------------------------------------------
\* Properties of ModuleGuard
\* ------------------------------------------------------------------------
ModuleBypass ==
  /\ IsSome(req.user)
  /\ Val(route.module).options.allowSuperadmin
  /\ Val(req.user).isSuperadmin

HasTenantId ==
  /\ IsSome(req.tenantContext)
  /\ Val(req.tenantContext).tenantId # ""

\* The enabled-module set a ModuleGuard step works with: the store's when
\* the step queries the store, the cached one otherwise.
EnabledSeen ==
  IF outcome'.lookup = "store"
  THEN storeModules[Val(req.tenantContext).tenantId]
  ELSE Val(moduleCache[Val(req.tenantContext).tenantId]).modules

\* C9: for an identity that is not bypassed and has a resolved tenant,
\* requireAny = true passes iff the enabled set meets the required list and
\* requireAny = false passes iff the enabled set contains the required list.
C9_AnyOrAll ==
  [][(/\ ModuleGuard_canActivate
      /\ IsSome(route.module)
      /\ IsSome(req.user)
      /\ ~ModuleBypass
      /\ HasTenantId
      /\ storeUp)
     => (outcome'.pass <=>
           IF Val(route.module).options.requireAny
           THEN Val(route.module).modules \cap EnabledSeen # {}
           ELSE Val(route.module).modules \subseteq EnabledSeen)]_vars

\* Required [HRM, PAYROLL] with only HRM enabled passed under requireAny.
C9_Witness ==
  /\ outcome.guard = "ModuleGuard"
  /\ outcome.pass
  /\ outcome.lookup = "store"
  /\ IsSome(route.module)
  /\ Val(route.module).modules = {"HRM", "PAYROLL"}
  /\ Val(route.module).options.requireAny
  /\ IsSome(req.user)
  /\ ~Val(req.user).isSuperadmin
  /\ HasTenantId
  /\ storeModules["cA"] = {"HRM"}
  /\ IsSome(moduleCache["cA"])
  /\ Val(moduleCache["cA"]).modules = {"HRM"}

\* C10: a superadmin with allowSuperadmin = true passes even without a
\* tenant context, and every other request without a resolved tenant id is
\* rejected; neither looks the enabled-module set up in cache or store.
C10_BypassBeforeTenant ==
  [][(ModuleGuard_canActivate /\ IsSome(route.module))
     => /\ ModuleBypass
           => (outcome'.pass /\ outcome'.lookup = ""
               /\ moduleCache' = moduleCache)
        /\ (~ModuleBypass /\ ~HasTenantId)
           => (~outcome'.pass /\ outcome'.status = 403
               /\ outcome'.lookup = "" /\ moduleCache' = moduleCache)]_vars

C10_Witness ==
  /\ outcome.guard = "ModuleGuard"
  /\ IsSome(route.module)
  /\ ModuleBypass
  /\ ~IsSome(req.tenantContext)
  /\ outcome.pass
  /\ outcome.lookup = ""

\* ------------------------------------------------------------------------
\* Properties of the rate limiter
\* ------------------------------------------------------------------------
LoginRequest ==
  CHOOSE r \in ThrottlerRequests : r.url = "/auth/login"

LoginKey == generateKey(LoginRequest, getClientIP(LoginRequest))

LoginIP == getClientIP(LoginRequest)

\* The guard handles a login request in this step.
LoginStep ==
  /\ response'.request = Some(LoginRequest)
  /\ now' = now
  /\ CustomThrottlerGuard_canActivate

\* The number of earlier login requests in the window that is running now
\* (0 when there is no record for the key).
LoginsInWindow ==
  IF IsSome(rateLimitStore[LoginKey]) THEN Val(rateLimitStore[LoginKey]).count
  ELSE 0

LoginWindowRunning ==
  IsSome(rateLimitStore[LoginKey])
    => now < Val(rateLimitStore[LoginKey]).windowStart
               + RATE_LIMIT_CONFIG.authTtl

BlockExpired(ip) ==
  IsSome(blockedIPs[ip]) /\ now > Val(blockedIPs[ip])

FreshWindow(data, ttl) == data = Some(RateLimitData(1, now, now + ttl))

\* C11: with limit 5 over a one-minute window on the login route, the 1st
\* to 5th request of one IP within the window are accepted, the 6th is
\* rejected with 429 and the IP is blocked for the configured duration; a
\* login request arriving after the block has expired is accepted and starts
\* a fresh window with count 1.
C11_LoginScenario ==
  [][(LoginStep /\ RATE_LIMIT_CONFIG.enableBlocking) =>
       /\ (~IsSome(blockedIPs[LoginIP]) /\ LoginWindowRunning
             /\ LoginsInWindow < 5)
            => /\ response'.pass
               /\ Val(rateLimitStore'[LoginKey]).count = LoginsInWindow + 1
       /\ (~IsSome(blockedIPs[LoginIP]) /\ LoginWindowRunning
             /\ LoginsInWindow = 5)
            => /\ ~response'.pass
               /\ response'.status = 429
               /\ blockedIPs'[LoginIP]
                    = Some(now + RATE_LIMIT_CONFIG.blockDuration)
       /\ BlockExpired(LoginIP)
            => /\ response'.pass
               /\ FreshWindow(rateLimitStore'[LoginKey],
                              RATE_LIMIT_CONFIG.authTtl)]_vars

\* A login request was accepted right after the block that the sixth login
\* request of a window had caused ran out.
C11_Witness ==
  /\ response.request = Some(LoginRequest)
  /\ response.pass
  /\ response.evicted
  /\ FreshWindow(rateLimitStore[LoginKey], RATE_LIMIT_CONFIG.authTtl)
  /\ \A k \in RateLimitKeys \ {LoginKey} : ~IsSome(rateLimitStore[k])

\* The guard handles request r in this step.
ThrottlerStep(r) ==
  /\ response'.request = Some(r)
  /\ now' = now
  /\ CustomThrottlerGuard_canActivate

\* C12: every request the rate limiter processed has the X-RateLimit-Limit,
\* -Remaining and -Reset headers on its response, whether it was accepted
\* or rejected (limit exceeded or IP blocked), and Remaining is not
\* negative.
C12_HeadersAlways ==
  IsSome(response.request)
    => /\ IsSome(response.headers)
       /\ Val(response.headers).remaining >= 0

C14_ExpiredBlockEvicted ==
  [][\A r \in ThrottlerRequests :
       LET ip == getClientIP(r) IN
       (ThrottlerStep(r) /\ IsSome(blockedIPs[ip])
          /\ Val(blockedIPs[ip]) <= now)
         => /\ response'.evicted
            /\ response'.retryAfter = None
            /\ blockedIPs'[ip] # blockedIPs[ip]]_vars

\* C15: a request is added to the count of its key's window only when it
\* arrives in [windowStart, windowStart + windowTTL); a request arriving at
\* or after the window's end replaces the record by a fresh window with
\* count 1.
C15_WindowHalfOpen ==
  [][\A r \in ThrottlerRequests :
       LET key == generateKey(r, getClientIP(r))
           ttl == IF r.url = "/auth/login" THEN RATE_LIMIT_CONFIG.authTtl
                  ELSE RATE_LIMIT_CONFIG.defaultTtl
           old == Val(rateLimitStore[key])
       IN
       (ThrottlerStep(r) /\ IsSome(rateLimitStore[key])
          /\ rateLimitStore'[key] # rateLimitStore[key])
         => IF old.windowStart <= now /\ now < old.windowStart + ttl
            THEN rateLimitStore'[key]
                   = Some([old EXCEPT !.count = old.count + 1])
            ELSE FreshWindow(rateLimitStore'[key], ttl)]_vars

AuthClassified(r) == r.url \in {"/auth/login", "/auth/me"}

LimitOf(r) ==
  IF r.url = "/auth/login" THEN 5 ELSE RATE_LIMIT_DEFAULT

\* The request the guard handles in this step is counted, and the count of
\* its window now exceeds the limit of its route.
ExceedingStep(r) ==
  LET key == generateKey(r, getClientIP(r)) IN
  /\ ThrottlerStep(r)
  /\ rateLimitStore'[key] # rateLimitStore[key]
  /\ Val(rateLimitStore'[key]).count > LimitOf(r)

\* C16: a request whose window count exceeds its route's limit is rejected
\* with 429; it sets the block entry of its IP to now + blockDuration
\* exactly when the route is an auth route and blocking is enabled;
\* otherwise, and so on every route that is not an auth route, it adds no
\* block entry and changes none.
C16_ExceedingBlocksAuthOnly ==
  [][\A r \in ThrottlerRequests :
       LET ip == getClientIP(r) IN
       ExceedingStep(r)
         => /\ ~response'.pass
            /\ response'.status = 429
            /\ IF AuthClassified(r) /\ RATE_LIMIT_CONFIG.enableBlocking
               THEN blockedIPs'[ip]
                      = Some(now + RATE_LIMIT_CONFIG.blockDuration)
               ELSE \A i \in ClientIPs :
                      IsSome(blockedIPs'[i])
                        => blockedIPs'[i] = blockedIPs[i]]_vars

\* A request over the limit of a route that is not an auth route was
\* rejected although blocking is enabled, and the IP is not blocked.
C16_Witness ==
  /\ IsSome(response.request)
  /\ ~AuthClassified(Val(response.request))
  /\ RATE_LIMIT_CONFIG.enableBlocking
  /\ response.status = 429
  /\ IsSome(response.headers)
  /\ Val(response.headers).remaining = 0
  /\ blockedIPs[getClientIP(Val(response.request))] = None

\* ------------------------------------------------------------------------
\* Properties of the tenant resolver's cache
\* ------------------------------------------------------------------------
\* resolveFromSubdomain is called with subdomain s in this step.
SubdomainStep(s) ==
  /\ call'.op = "resolveFromSubdomain"
  /\ call'.arg = s
  /\ <<now, storeActive, storeUp>>' = <<now, storeActive, storeUp>>
  /\ TenantResolver_resolveFromSubdomain

\* resolveFromJWT is called with company id c in this step.
ClaimStep(c) ==
  /\ call'.op = "resolveFromJWT"
  /\ call'.arg = c
  /\ <<now, storeActive, storeUp>>' = <<now, storeActive, storeUp>>
  /\ TenantResolver_resolveFromJWT

Age(key) == now - Val(cacheTimestamps[key])

Expired(key) ==
  /\ IsSome(tenantCache[key])
  /\ IsSome(cacheTimestamps[key])
  /\ Age(key) >= CACHE_TTL

Unexpired(key) ==
  /\ IsSome(tenantCache[key])
  /\ IsSome(cacheTimestamps[key])
  /\ Age(key) < CACHE_TTL

\* The active company the store holds for subdomain s, if any.
ActiveCompanyFor(s) ==
  {c \in storeActive : CompanySubdomain(c) = ToLower(s)}

\* C17: the resolver never answers from a cache entry whose age has reached
\* the TTL; a call for a key whose entry has expired removes the entry
\* (value and timestamp) and is answered by the store, which may put a new
\* entry stamped with the time of the call.
C17_ExpiredNeverReturned ==
  [][\A s \in CacheKeys :
       /\ (SubdomainStep(s) /\ call'.cacheHit) => Unexpired(s)
       /\ (SubdomainStep(s) /\ Expired(s))
            => /\ ~call'.cacheHit
               /\ call'.evicted
               /\ call'.result.success
                    = (storeUp /\ ActiveCompanyFor(s) # {})
               /\ IF call'.result.success
                  THEN cacheTimestamps'[s] = Some(now)
                  ELSE tenantCache'[s] = None /\ cacheTimestamps'[s] = None
    ]_vars

\* A call found an expired entry, removed it and was answered by the store,
\* which put a new entry.
C17_Witness ==
  /\ call.op = "resolveFromSubdomain"
  /\ call.evicted
  /\ ~call.cacheHit
  /\ call.result.success
  /\ now >= StartTime + CACHE_TTL
  /\ cacheTimestamps[call.arg] = Some(now)

\* C18 as stated: for a subdomain s with no matching active company in the
\* store, resolveFromSubdomain(s) returns success = false and leaves no
\* cache entry for s.
C18_NoActiveCompanyFails ==
  [][\A s \in CacheKeys :
       (SubdomainStep(s) /\ ActiveCompanyFor(s) = {})
         => /\ ~call'.result.success
            /\ tenantCache'[s] = None]_vars

\* C18: for a subdomain s with no matching active company in the store,
\* resolveFromSubdomain(s), unless an unexpired cache entry for s answers
\* it, returns success = false and leaves no cache entry for s; and a call
\* that finds no cache entry for s while the store holds an active company
\* for s and answers succeeds with that company.
C18_UncachedFailureNotCached ==
  [][\A s \in CacheKeys :
       /\ (SubdomainStep(s) /\ ActiveCompanyFor(s) = {} /\ ~Unexpired(s))
            => /\ ~call'.result.success
               /\ tenantCache'[s] = None
               /\ cacheTimestamps'[s] = None
       /\ (SubdomainStep(s) /\ tenantCache[s] = None /\ storeUp
             /\ ActiveCompanyFor(s) # {})
            => /\ call'.result.success
               /\ call'.result.tenantId \in ActiveCompanyFor(s)]_vars

\* A call for the subdomain of a deactivated company failed at the store
\* and left no entry behind.
C18_Witness ==
  /\ call.op = "resolveFromSubdomain"
  /\ call.arg = "xyz"
  /\ "cB" \notin storeActive
  /\ ~call.result.success
  /\ call.result.error = "No active company found for subdomain"
  /\ tenantCache["xyz"] = None

\* C19: for every company c that is inactive in the store,
\* resolveFromJWT(c.id) returns success = false, also while an entry for c
\* cached when it was active is still in the cache.
C19_InactiveClaimFails ==
  [][\A c \in CompanyIds :
       (ClaimStep(c) /\ c \notin storeActive)
         => ~call'.result.success]_vars

\* A verified-claim resolution of a deactivated company failed while the
\* cache held an unexpired entry for it.
C19_Witness ==
  /\ call.op = "resolveFromJWT"
  /\ call.arg = "cA"
  /\ "cA" \notin storeActive
  /\ ~call.result.success
  /\ tenantCache["abc"] = Some(TenantInfo("cA", TRUE))
  /\ Unexpired("abc")

\* C20: a successful resolveFromJWT for company c leaves c's TenantInfo in
\* the cache under c's subdomain, and a resolveFromSubdomain(c.subdomain)
\* that follows it within the TTL is answered from the cache with
\* tenantId = c.id, without a query to the store.
C20_ClaimPopulatesSubdomain ==
  [][\A c \in CompanyIds :
       LET key == CompanySubdomain(c) IN
       /\ (ClaimStep(c) /\ call'.result.success)
            => /\ call'.result.tenantId = c
               /\ tenantCache'[key] = Some(TenantInfo(c, TRUE))
               /\ cacheTimestamps'[key] = Some(now)
       /\ (SubdomainStep(key) /\ call.op = "resolveFromJWT"
             /\ call.result.success /\ call.result.tenantId = c
             /\ Age(key) < CACHE_TTL)
            => /\ call'.result.success
               /\ call'.result.tenantId = c
               /\ call'.cacheHit]_vars

\* A subdomain resolution that followed a verified-claim resolution of the
\* same company succeeded from the cache while the store was down.
C20_Witness ==
  /\ call.op = "resolveFromSubdomain"
  /\ call.afterJWT
  /\ call.cacheHit
  /\ call.result.success
  /\ call.result.tenantId = "cB"
  /\ ~storeUp

\* ------------------------------------------------------------------------
\* Properties of the resolver's failure handling and of the request stages
\* ------------------------------------------------------------------------
\* resolveFromSubdomain is called with spelling s while the store is up.
SpelledStep(s) ==
  /\ call'.arg = s
  /\ now' = now
  /\ storeUp
  /\ TenantResolver_resolveFromSubdomain_Spelled

OtherSpelling(s) == IF s = "abc" THEN "ABC" ELSE "abc"

\* C21: "ABC" and "abc" share one cache entry: a call with one spelling made
\* while the entry written by a call with the other spelling is unexpired is
\* answered from the cache, and the cache never holds an entry under each
\* spelling.
C21_SpellingsShareEntry ==
  /\ [][\A s \in Spellings :
         SpelledStep(s) /\ Unexpired(OtherSpelling(s)) => call'.cacheHit]_vars
  /\ [](~(IsSome(tenantCache["abc"]) /\ IsSome(tenantCache["ABC"])))

\* A resolver call with a non-empty argument reaches the store, which fails.
StoreFailStep ==
  /\ ~storeUp
  /\ call'.op \in {"resolveFromSubdomain", "resolveFromJWT",
                   "resolveFromHeader"}
  /\ call'.arg # ""
  /\ ~call'.cacheHit
  /\ <<now, storeActive, storeUp>>' = <<now, storeActive, storeUp>>
  /\ \/ TenantResolver_resolveFromSubdomain
     \/ TenantResolver_resolveFromJWT
     \/ TenantResolver_resolveFromHeader

FailsWithMessage(result) ==
  /\ ~result.success
  /\ result.tenantInfo = None
  /\ result.error = "Database error"

\* C22 as stated: a call whose store query fails returns success = false
\* with an error message and leaves the tenant cache exactly as it was.
C22_StoreFailureLeavesCache ==
  [][StoreFailStep =>
       /\ FailsWithMessage(call'.result)
       /\ tenantCache' = tenantCache
       /\ cacheTimestamps' = cacheTimestamps]_vars

\* C22, amended: a call whose store query fails returns success = false
\* with an error message and adds or refreshes no cache entry; the only
\* change it can make is to remove the expired entry of the subdomain that
\* resolveFromSubdomain looked up.
C22_StoreFailureAddsNothing ==
  [][StoreFailStep =>
       /\ FailsWithMessage(call'.result)
       /\ \A k \in CacheKeys :
            \/ /\ tenantCache'[k] = tenantCache[k]
               /\ cacheTimestamps'[k] = cacheTimestamps[k]
            \/ /\ call'.op = "resolveFromSubdomain"
               /\ k = call'.arg
               /\ Expired(k)
               /\ tenantCache'[k] = None
               /\ cacheTimestamps'[k] = None]_vars

\* A subdomain call has failed on the store after removing an expired entry
\* while another key still holds its entry.
C22_Witness ==
  /\ ~storeUp
  /\ call.op = "resolveFromSubdomain"
  /\ call.result.error = "Database error"
  /\ call.evicted
  /\ \E k \in CacheKeys : IsSome(tenantCache[k])

\* The company whose subdomain the Host header names, if it names one.
HostSubdomain(hostname) ==
  IF Len(hostname) = 3 /\ hostname[1] \in {"abc", "xyz"}
  THEN hostname[1] ELSE ""

SubdomainResolvable(s) ==
  /\ s # ""
  /\ \/ Unexpired(s)
     \/ storeUp /\ ActiveCompanyFor(s) # {}

CompanyResolvable(c) == c # "" /\ storeUp /\ c \in storeActive

\* No signal of the request resolves: each is absent or fails.
NothingResolves(r) ==
  /\ ~(IsSome(r.user) /\ CompanyResolvable(Val(r.user).companyId))
  /\ ~SubdomainResolvable(HostSubdomain(r.hostname))
  /\ ~CompanyResolvable(r.headerCompanyId)

\* C23: TenantContextMiddleware.use never rejects: whatever the request
\* carries and whether or not something raised inside it, it hands the
\* request to the next stage with a tenantResolution recorded; when no
\* signal resolves, that record is a failure with source FALLBACK and no
\* tenantContext is attached.
C23_StageNeverRejects ==
  [][pc = "middleware" /\ pc' # pc =>
       /\ pc' = "guard"
       /\ IsSome(req'.tenantResolution)
       /\ NothingResolves(req) =>
            /\ ~Val(req'.tenantResolution).success
            /\ Val(req'.tenantResolution).source = "fallback"
            /\ req'.tenantContext = None]_vars

\* Subdomain and header were both tried and both failed.
C23_Witness ==
  /\ pc = "guard"
  /\ req.hostname = <<"abc", "myerp", "com">>
  /\ req.headerCompanyId = "cB"
  /\ req.tenantResolution =
       Some(Failure("fallback", "No valid tenant source found"))
  /\ req.tenantContext = None

\* The interceptor has something to resolve for this request.
NeedsEnhancing(r) ==
  /\ IsSome(r.user)
  /\ Val(r.user).companyId # ""
  /\ \/ r.tenantContext = None
     \/ Val(r.tenantContext).tenantInfo = None

ClaimContext(r) ==
  LET c == Val(r.user).companyId IN
  Some(TenantContext(c, Some(TenantInfo(c, TRUE))))

CacheUnchanged ==
  <<tenantCache, cacheTimestamps>>' = <<tenantCache, cacheTimestamps>>

\* C24: TenantContextInterceptor.intercept resolves only for an identity
\* with a companyId whose request has no tenant context or one without
\* tenantInfo; a successful resolution replaces the context with the
\* claim's company; a failed or raising resolution leaves the context as it
\* was; in every case the request goes on to the handler.
C24_EnhancerFrame ==
  [][pc = "interceptor" /\ pc' # pc =>
       /\ pc' = "handler"
       /\ IF ~NeedsEnhancing(req)
          THEN req' = req /\ CacheUnchanged
          ELSE \/ /\ CompanyResolvable(Val(req.user).companyId)
                  /\ req' = [req EXCEPT !.tenantContext = ClaimContext(req)]
                  /\ cacheTimestamps'[CompanySubdomain(
                         Val(req.user).companyId)] = Some(now)
               \/ /\ req' = req
                  /\ CacheUnchanged
                  /\ \/ ~CompanyResolvable(Val(req.user).companyId)
                     \/ TenantContextInterceptor_catch]_vars

\* The interceptor has run for an identity of company cA whose context
\* lacked tenantInfo, and the resolution did not succeed.
C24_Witness ==
  /\ pc = "handler"
  /\ IsSome(req.user)
  /\ Val(req.user).companyId = "cA"
  /\ req.tenantContext = Some(TenantContext("cB", None))

\* The company the request's verified credential names, if it carries one.
ClaimOf(r) == IF IsSome(r.token) THEN Val(r.token).companyId ELSE ""

\* C25: tenant resolution goes by the fixed order verified claim, subdomain,
\* header: the request's resolution is that of the first signal in this
\* order that resolves, and is unresolved when none does.
C25_FixedOrder ==
  [][pc = "middleware" /\ pc' = "guard" =>
       LET res == Val(req'.tenantResolution)
           sub == HostSubdomain(req.hostname)
           hdr == req.headerCompanyId
       IN  IF CompanyResolvable(ClaimOf(req))
           THEN /\ res.success
                /\ res.source = "jwt"
                /\ res.tenantId = ClaimOf(req)
           ELSE IF SubdomainResolvable(sub)
           THEN /\ res.success
                /\ res.source = "subdomain"
                /\ Val(res.tenantInfo).subdomain = sub
           ELSE IF CompanyResolvable(hdr)
           THEN /\ res.success
                /\ res.source = "header"
                /\ res.tenantId = hdr
           ELSE /\ ~res.success
                /\ req'.tenantContext = None]_vars

\* C26: the rate limiter decides before the tenant stage looks anything up:
\* a request has a tenant resolution recorded only after the rate limiter
\* has answered it, and a request the rate limiter rejected never has one.
C26_RateLimiterFirst ==
  /\ IsSome(req.tenantResolution) => IsSome(response.request)
  /\ IsSome(response.request) /\ ~response.pass =>
       req.tenantResolution = None

\* The request's only tenant signal is the verified claim of a
\* non-superadmin identity of a company the store can currently resolve.
ClaimOnlyRequest ==
  /\ IsSome(req.user)
  /\ "superadmin" \notin Val(req.user).roleIds
  /\ CompanyResolvable(Val(req.user).companyId)
  /\ HostSubdomain(req.hostname) = ""
  /\ req.headerCompanyId = ""

\* C27: the guards see the context the interceptor writes: a strict
\* TenantGuard passes an authenticated request whose only tenant signal is
\* its verified claim for an active company.
C27_GuardsSeeEnhancedContext ==
  [][/\ pc = "f_tenant"
     /\ pc' # pc
     /\ IsSome(route.tenant)
     /\ ClaimOnlyRequest
     => outcome'.pass]_vars

\* The request comes from an authenticated identity that no guard lets
\* through as superadmin.
NonSuperadmin(r) ==
  /\ IsSome(r.user)
  /\ "superadmin" \notin Val(r.user).roleIds
  /\ ~Val(r.user).isSuperadmin

\* The tenant detail the request's Host asks for is in the cache, unexpired.
TenantDetailCached(r) ==
  /\ HostSubdomain(r.hostname) # ""
  /\ Unexpired(HostSubdomain(r.hostname))

\* The enabled-module set of the request's tenant is in the cache,
\* unexpired.
ModuleSetCached(r) ==
  /\ IsSome(r.tenantContext)
  /\ Val(r.tenantContext).tenantId # ""
  /\ IsSome(moduleCache[Val(r.tenantContext).tenantId])
  /\ Val(moduleCache[Val(r.tenantContext).tenantId]).expires > now

\* C30: a store outage fails closed. When the store is down while the tenant
\* detail has to be fetched, the request gets no tenant context and its
\* resolution is recorded as failed; a non-superadmin request to a strict
\* tenant route gets past TenantGuard only with a successful resolution;
\* and when the store is down while ModuleGuard has to fetch the
\* enabled-module set, a non-superadmin request to a route with a module
\* requirement is rejected.
C30_StoreOutageRejects ==
  /\ [][/\ pc = "f_middleware"
        /\ pc' # pc
        /\ ~storeUp
        /\ ~TenantDetailCached(req)
        => /\ req'.tenantContext = None
           /\ ~Val(req'.tenantResolution).success]_vars
  /\ [](/\ pc \in {"f_module", "f_interceptor", "handler"}
        /\ IsSome(route.tenant)
        /\ NonSuperadmin(req)
        => /\ IsSome(req.tenantResolution)
           /\ Val(req.tenantResolution).success)
  /\ [][/\ pc = "f_module"
        /\ pc' # pc
        /\ ~storeUp
        /\ IsSome(route.module)
        /\ NonSuperadmin(req)
        /\ ~ModuleSetCached(req)
        => pc' = "rejected"]_vars

\* ModuleGuard has failed a request because the store query for the
\* enabled modules failed.
C30_Witness ==
  /\ pc = "rejected"
  /\ ~storeUp
  /\ NonSuperadmin(req)
  /\ IsSome(route.module)
  /\ outcome.guard = "ModuleGuard"
  /\ outcome.status = 500

\* The body the client receives for the rejection recorded in response.
ClientBody(nodeEnv) ==
  GlobalExceptionFilter_catch(ThrownHttpException(response),
                              Val(response.request), nodeEnv)

\* C28: every rejection by the rate limiter reaches the client with status
\* 429 and a body carrying statusCode, error and message; when the IP is
\* blocked the body also carries retryAfter, the remaining block time in
\* seconds.
C28_BlockedBodyHasRetryAfter ==
  IsSome(response.request) /\ ~response.pass =>
    \A nodeEnv \in NodeEnvs :
      LET body == ClientBody(nodeEnv) IN
      /\ response.status = 429
      /\ {"statusCode", "error", "message"} \subseteq DOMAIN body
      /\ body.statusCode = 429
      /\ IsSome(response.retryAfter) =>
           /\ "retryAfter" \in DOMAIN body
           /\ body["retryAfter"] = Val(response.retryAfter)

\* The rate limiter handles request r in this step.
LoggedStep(r) ==
  /\ response'.request = Some(r)
  /\ CustomThrottlerGuard_canActivate_Logged

\* C29: the security-log write changes nothing, whether it succeeds or
\* fails: the request is accepted or answered 429 exactly as the guard
\* decides it, the window map and the block map are updated exactly as the
\* guard updates them, and nothing is raised in place of that answer.
C29_LogFailureChangesNothing ==
  [][\A r \in ThrottlerRequests :
       LoggedStep(r) =>
         LET c == canActivate(rateLimitStore, blockedIPs, r) IN
         /\ response'.pass \/ response'.status = 429
         /\ outcome'.lookup = "failed" => response'.status = 429
         /\ response' = c.response
         /\ rateLimitStore' = c.rateLimitStore
         /\ blockedIPs' = c.blockedIPs]_vars

\* The write of an IP_BLOCKED event has failed and the IP is blocked.
C29_Witness ==
  /\ outcome.lookup = "failed"
  /\ response.event = "IP_BLOCKED"
  /\ response.status = 429
  /\ IsSome(blockedIPs["10.0.0.1"])

\* ------------------------------------------------------------------------
\* Properties of subdomain extraction, of the guards' caches and of
\* concurrent requests
\* ------------------------------------------------------------------------
UpperCaseLabels == {"ABC", "XYZ", "WWW"}

\* The middleware has handled the request and called resolveFromSubdomain.
SubdomainHandedOver ==
  /\ pc = "guard"
  /\ call.op = "resolveFromSubdomain"

\* The Host has a first label that may name a tenant.
TenantHost(hostname) ==
  /\ Len(hostname) >= 3
  /\ hostname # <<"10", "0", "0", "1">>
  /\ \A i \in 1..Len(hostname) :
       hostname[i] \notin {"localhost", "localhost:3000"}
  /\ hostname[1] \notin ReservedSubdomains

\* C35: a subdomain is handed to resolveFromSubdomain only for a Host that
\* is not localhost or an IPv4 address, has at least 3 labels and a first
\* label that is not reserved; what is handed over is never a reserved
\* label and has no upper-case letter.
C35_ExtractedLabel ==
  SubdomainHandedOver =>
    /\ TenantHost(req.hostname)
    /\ call.arg \notin ReservedSubdomains
    /\ call.arg \notin UpperCaseLabels

\* The step is a request of a blocked IP, rejected with a retryAfter.
BlockedRejectionStep ==
  /\ now' = now
  /\ response' # NoResponse
  /\ IsSome(response'.retryAfter)

\* C37: a request rejected because its IP is blocked changes neither the
\* window map nor the block entry: blockedUntil is not extended.
C37_BlockedRejectionFrame ==
  [][BlockedRejectionStep =>
       /\ rateLimitStore' = rateLimitStore
       /\ blockedIPs' = blockedIPs]_vars

\* A request has been rejected for a block that has part of its time left,
\* with the window that caused the block still in the map.
C37_Witness ==
  /\ response # NoResponse
  /\ IsSome(response.retryAfter)
  /\ Val(response.retryAfter) > 0
  /\ Val(response.retryAfter) < RATE_LIMIT_CONFIG.blockDuration * SecondsPerMinute
  /\ IsSome(blockedIPs[getClientIP(Val(response.request))])
  /\ \E k \in RateLimitKeys : IsSome(rateLimitStore[k])

\* The handler of a TenantGuard route is running for an identity that has
\* neither the superadmin flag nor the superadmin role.
OrdinaryUserAtHandler ==
  /\ pc = "handler"
  /\ IsSome(route.tenant)
  /\ outcome.guard = "TenantGuard"
  /\ IsSome(req.user)
  /\ ~Val(req.user).isSuperadmin
  /\ "superadmin" \notin Val(req.user).roleIds

\* C38: on a route protected by TenantGuard, in every mode, the tenant id
\* the handler of a non-superadmin request is called with (the context's
\* tenantId when the context carries tenantInfo, otherwise the identity's
\* companyId) is the identity's companyId, whatever Host or X-Company-Id
\* the request had.
C38_HandlerTenantIsOwnCompany ==
  OrdinaryUserAtHandler => Tenant(req) = Val(req.user).companyId

\* A request of a user of company cA reached the handler although it named
\* company cB in its X-Company-Id header and carries no tenant detail.
C38_Witness ==
  /\ OrdinaryUserAtHandler
  /\ Val(req.user).companyId = "cA"
  /\ req.headerCompanyId = "cB"
  /\ req.hostname = <<"localhost:3000">>
  /\ ~IsSome(req.tenantContext)
  /\ Tenant(req) = "cA"

\* The step is a ModuleGuard check of a request that is not bypassed: the
\* guard obtained the enabled-module set of company cA.
ModuleCheckStep ==
  /\ now' = now
  /\ storeModules' = storeModules
  /\ outcome'.guard = "ModuleGuard"
  /\ outcome'.lookup # ""
  /\ ModuleGuard_canActivate_Timed

\* The modules that have been disabled for at least the cache lifetime.
LongDisabled ==
  {m \in ModuleName :
     /\ IsSome(history.disabledAt[m])
     /\ now >= Val(history.disabledAt[m]) + CACHE_TTL}

\* The age of the cached module set of company c.
ModuleSetAge(c) == now - Val(history.fetchedAt[c])

RequestKey(r) == generateKey(r, getClientIP(r))

\* C36: under any interleaving of concurrent requests, the requests
\* accepted for one (method, route, IP) key within one window never exceed
\* the route's limit.
C36_AcceptedWithinLimit ==
  \A r \in ConcurrentRequests :
    history.accepted[RequestKey(r)] <= getRateLimitsForEndpoint(r).limit

\* A key's window has accepted as many requests as the limit allows and
\* counted one more, while a rejected request of that key and one of another
\* key are waiting for their log writes.
C36_Witness ==
  \E r \in ConcurrentRequests :
    /\ history.accepted[RequestKey(r)] = getRateLimitsForEndpoint(r).limit
    /\ IsSome(rateLimitStore[RequestKey(r)])
    /\ Val(rateLimitStore[RequestKey(r)]).count
         > getRateLimitsForEndpoint(r).limit
    /\ \E p \in pending : p.request = Some(r)
    /\ \E p \in pending : p.request # Some(r)

\* The step accepts a request.
AcceptStep ==
  /\ now' = now
  /\ pending' = pending
  /\ response' # response
  /\ response'.pass

\* The rejections that start waiting for their log write in the step.
StartedRejections == pending' \ pending

C32_ProgressiveBlocking ==
  [][\A ip \in ClientIPs :
       (/\ history'.blockedUntil[ip] # history.blockedUntil[ip]
        /\ IsSome(history.blockDuration[ip]))
       => Val(history'.blockDuration[ip]) > Val(history.blockDuration[ip])
    ]_vars

\* The time company c was deactivated is at least the cache lifetime ago.
LongDeactivated(c, time) ==
  /\ IsSome(history.deactivatedAt[c])
  /\ time >= Val(history.deactivatedAt[c]) + CACHE_TTL

\* C33: after a company is deactivated at time t, no resolveFromSubdomain
\* call made at t + CACHE_TTL or later returns success for it, whatever
\* subdomain, claim and header resolutions run concurrently, those whose
\* store query was in flight at t included.
C33_StalenessBoundedByTTL ==
  [][/\ (/\ now' = now
         /\ pending' = pending
         /\ call'.op = "resolveFromSubdomain"
         /\ call'.result.success
         /\ TenantResolver_Start)
        => ~LongDeactivated(call'.result.tenantId, now)
     /\ \A p \in pending \ pending' :
          (/\ p.op = "resolveFromSubdomain"
           /\ call'.result.success)
          => ~LongDeactivated(call'.result.tenantId, p.start)
    ]_vars

TypeOK ==
  /\ now \in StartTime..MaxTime
  /\ storeActive \subseteq CompanyIds
  /\ pc \in {"middleware", "guard", "interceptor", "handler", "rejected",
            "u_middleware", "u_jwt", "u_tenant", "u_interceptor",
            "guards", "resolver", "f_middleware", "f_throttler", "f_jwt",
            "f_tenant", "f_module", "f_interceptor"}
  /\ \A ip \in ClientIPs :
       IsSome(blockedIPs[ip]) => Val(blockedIPs[ip]) \in Nat
  /\ \A k \in RateLimitKeys :
       IsSome(rateLimitStore[k]) => Val(rateLimitStore[k]).count \in 1..MaxCount
  /\ response.status \in {0, 429}

====
